---- MODULE Spec2Model ----
(***************************************************************************)
(* A model of the "specified" data-validation engine: the spec protocol   *)
(* and combinators (verify, constrain, optional, adjust, either), the     *)
(* composite types (array, tuple, object/interface, map) and the failure   *)
(* records they produce.                                                   *)
(*                                                                         *)
(* A spec is a record whose eval field is the spec's evaluation closure,   *)
(* written as a term (op plus captured variables) that Eval interprets.   *)
(* An evaluation yields an outcome: the EvalResult it returned or the      *)
(* exception it threw, together with the log of the leaf evaluators and    *)
(* constraint checks that were called, in call order.                      *)
(***************************************************************************)
EXTENDS Integers, Sequences, FiniteSets, TLC

VARIABLES spec, value, globalOptions, pc, result, evalLog, valueCalls, described,
          errorPathList, extracted, built, calls

vars == <<spec, value, globalOptions, pc, result, evalLog, valueCalls, described,
          errorPathList, extracted, built, calls>>

(***************************************************************************)
(* Bounds of the model.                                                    *)
(***************************************************************************)
MaxLen == 2
MaxKeys == 2
MaxAlternatives == 2
MaxConstraints == 2
MaxValueCalls == 2
MaxUniqueLen == 3

(***************************************************************************)
(* JavaScript values.  An object keeps its keys in insertion order:        *)
(* keys[i] holds items[i].                                                 *)
(***************************************************************************)
Undefined == [t |-> "undefined", n |-> 0, s |-> "", keys |-> <<>>, items |-> <<>>]
Null == [Undefined EXCEPT !.t = "null"]
Num(n) == [Undefined EXCEPT !.t = "number", !.n = n]
Str(s) == [Undefined EXCEPT !.t = "string", !.s = s]
Arr(items) == [Undefined EXCEPT !.t = "array", !.items = items]
Obj(keys, items) == [Undefined EXCEPT !.t = "object", !.keys = keys, !.items = items]

Range(f) == {f[i] : i \in DOMAIN f}
SeqsUpTo(S, n) == UNION {[1..k -> S] : k \in 0..n}

\* Mutant of HasKey: a key whose value is undefined counts as absent.
HasDefinedKey(data, k) ==
    \E i \in DOMAIN data.keys : data.keys[i] = k /\ data.items[i].t # "undefined"

HasKey(data, k) == k \in Range(data.keys)
KeyIndex(data, k) == CHOOSE i \in DOMAIN data.keys : data.keys[i] = k
GetAttr(data, k) == IF HasKey(data, k) THEN data.items[KeyIndex(data, k)] ELSE Undefined
SetAttr(data, k, v) ==
    IF HasKey(data, k)
    THEN [data EXCEPT !.items[KeyIndex(data, k)] = v]
    ELSE [data EXCEPT !.keys = Append(@, k), !.items = Append(@, v)]

(***************************************************************************)
(* Options: a record of option objects, each a partial map from option     *)
(* name to boolean.  Merge(a, b) is the object spread {...a, ...b}.        *)
(***************************************************************************)
NoOptions == [k \in {} |-> TRUE]
Merge(a, b) == [k \in DOMAIN a \cup DOMAIN b |-> IF k \in DOMAIN b THEN b[k] ELSE a[k]]

(***************************************************************************)
(* ValidationFailure.  hasNested tells whether the nestedErrors field is   *)
(* present; key is Undefined when the failure has no key.                  *)
(***************************************************************************)
NoFailure ==
    [code |-> "", value |-> Undefined, message |-> "", key |-> Undefined,
     hasNested |-> FALSE, nestedErrors |-> <<>>]
Leaf(code, v, message) == [NoFailure EXCEPT !.code = code, !.value = v, !.message = message]

(***************************************************************************)
(* EvalResult and outcomes.                                                *)
(***************************************************************************)
Ok(v) == [ok |-> TRUE, err |-> NoFailure, value |-> v]
Err(f) == [ok |-> FALSE, err |-> f, value |-> Undefined]
Ret(res, log) == [threw |-> FALSE, exc |-> "", res |-> res, log |-> log]
Throw(exc, log) == [threw |-> TRUE, exc |-> exc, res |-> Ok(Undefined), log |-> log]
Called(kind, name, arg, v) == [kind |-> kind, name |-> name, arg |-> arg, value |-> v]

(***************************************************************************)
(* Constraints (SpecConstraint): the pre-built above/below, and a          *)
(* user-supplied constraint whose check throws an ordinary Error.          *)
(***************************************************************************)
above(lowerLimit) ==
    [version |-> 1, name |-> "above", limit |-> lowerLimit, options |-> <<>>]
below(upperLimit) ==
    [version |-> 1, name |-> "below", limit |-> upperLimit, options |-> <<>>]
oneOf(options) ==
    [version |-> 1, name |-> "oneOf", limit |-> 0, options |-> options]
errorConstraint ==
    [version |-> 1, name |-> "error-constraint", limit |-> 0, options |-> <<>>]
\* Constraint.array.unique(equalsFunc): options holds the name of equalsFunc.
unique(equalsFunc) ==
    [version |-> 1, name |-> "unique", limit |-> 0, options |-> <<equalsFunc>>]

errorMessage == "Not a validation error."

\* equalsFunc(a, b): the default a === b of values that are no objects, and
\* (a, b) => typeof a === typeof b as a function of the caller.
Equals(equalsFunc, a, b) ==
    CASE equalsFunc = "===" -> a = b
      [] equalsFunc = "typeof" -> a.t = b.t

RECURSIVE UniqueLoop(_, _, _, _, _)

\* Mutant of UniqueLoop: the inner loop starts at the first element again.
UniqueLoopOverAllPairs(equalsFunc, v, i, j, compared) ==
    IF ~(i < Len(v.items))
    THEN [threw |-> FALSE, exc |-> "", hasErr |-> FALSE, err |-> NoFailure, calls |-> compared]
    ELSE IF ~(j < Len(v.items))
    THEN UniqueLoop(equalsFunc, v, i + 1, 0, compared)
    ELSE IF i = j
    THEN UniqueLoop(equalsFunc, v, i, j + 1, compared)
    ELSE LET called == Append(compared, Called("equalsFunc", equalsFunc, 0,
                                             Arr(<<v.items[i + 1], v.items[j + 1]>>)))
         IN  IF Equals(equalsFunc, v.items[i + 1], v.items[j + 1])
             THEN [threw |-> FALSE, exc |-> "", hasErr |-> TRUE,
                   err |-> Leaf("constraint.array.unique", v,
                                "Array has duplicate elements at index " \o ToString(i)
                                \o " and " \o ToString(j) \o "."),
                   calls |-> called]
             ELSE UniqueLoop(equalsFunc, v, i, j + 1, called)

\* Constraint.array.unique: the two loops, at the (0-based) indices i and j;
\* compared are the calls of equalsFunc made so far.
UniqueLoop(equalsFunc, v, i, j, compared) ==
    IF ~(i < Len(v.items))
    THEN [threw |-> FALSE, exc |-> "", hasErr |-> FALSE, err |-> NoFailure, calls |-> compared]
    ELSE IF ~(j < Len(v.items))
    THEN UniqueLoop(equalsFunc, v, i + 1, i + 2, compared)
    ELSE LET called == Append(compared, Called("equalsFunc", equalsFunc, 0,
                                             Arr(<<v.items[i + 1], v.items[j + 1]>>)))
         IN  IF Equals(equalsFunc, v.items[i + 1], v.items[j + 1])
             THEN [threw |-> FALSE, exc |-> "", hasErr |-> TRUE,
                   err |-> Leaf("constraint.array.unique", v,
                                "Array has duplicate elements at index " \o ToString(i)
                                \o " and " \o ToString(j) \o "."),
                   calls |-> called]
             ELSE UniqueLoop(equalsFunc, v, i, j + 1, called)

\* c.eval(value): [threw, exc, hasErr, err, calls], calls being the calls of
\* the caller's functions that the check makes
ConstraintEval(c, v) ==
    CASE c.name = "above" ->
           [threw |-> FALSE, exc |-> "", hasErr |-> ~(v.n > c.limit),
            err |-> IF ~(v.n > c.limit)
                    THEN Leaf("constraint.number.above", v,
                              "Not above " \o ToString(c.limit) \o ".")
                    ELSE NoFailure, calls |-> <<>>]
      [] c.name = "below" ->
           [threw |-> FALSE, exc |-> "", hasErr |-> ~(v.n < c.limit),
            err |-> IF ~(v.n < c.limit)
                    THEN Leaf("constraint.number.below", v,
                              "Not below " \o ToString(c.limit) \o ".")
                    ELSE NoFailure, calls |-> <<>>]
      [] c.name = "oneOf" ->
           [threw |-> FALSE, exc |-> "", hasErr |-> v \notin Range(c.options),
            err |-> IF v \notin Range(c.options)
                    THEN Leaf("constraint.generic.oneOf.unknown_value", v,
                              "Not one of the accepted options.")
                    ELSE NoFailure, calls |-> <<>>]
      [] c.name = "unique" -> UniqueLoop(c.options[1], v, 0, 1, <<>>)
      [] OTHER ->
           [threw |-> TRUE, exc |-> errorMessage, hasErr |-> FALSE, err |-> NoFailure,
            calls |-> <<>>]

(***************************************************************************)
(* Specs.  Closure is the shape of an evaluation closure: op names the     *)
(* function, the other fields are the variables it captured.               *)
(***************************************************************************)
Closure ==
    [op |-> "", typeName |-> "", specs |-> <<>>, attrs |-> <<>>, constraints |-> <<>>,
     adjustedOptions |-> NoOptions, strict |-> TRUE]

\* A SpecDefinition.  nested[i] is the definition under the key nestedKeys[i];
\* a has... field tells whether the optional field after it is present.
Definition(type, nestedKeys, nested) ==
    [type |-> type, nestedKeys |-> nestedKeys, nested |-> nested,
     hasAlias |-> FALSE, alias |-> "",
     hasConstraints |-> FALSE, constraints |-> <<>>,
     hasAdjustments |-> FALSE, adjustments |-> NoOptions,
     hasFlags |-> FALSE, flags |-> <<>>,
     hasDefaultValue |-> FALSE, defaultValue |-> Undefined]
Definitions(specs) == [i \in DOMAIN specs |-> specs[i].definition]
ConstraintDefinition(c) == [name |-> c.name, limit |-> c.limit, options |-> c.options]

NewSpec(eval, definition) ==
    [version |-> 1, definition |-> definition, eval |-> eval, optional |-> FALSE,
     hasDefault |-> FALSE, defaultValue |-> Undefined]

\* Mutant of removeAlias: the alias is deleted from the definition it was given.
removeAliasInPlace(specDef) ==
    [def |-> [specDef EXCEPT !.hasAlias = FALSE, !.alias = ""],
     specDef |-> [specDef EXCEPT !.hasAlias = FALSE, !.alias = ""]]

\* removeAlias(specDef): def is the definition it returns, specDef the definition
\* it was given as it is after the call.
removeAlias(specDef) ==
    [def |-> [specDef EXCEPT !.hasAlias = FALSE, !.alias = ""], specDef |-> specDef]

\* alias(aliasName, spec)
alias(aliasName, s) ==
    NewSpec(s.eval, [s.definition EXCEPT !.hasAlias = TRUE, !.alias = aliasName])

UnknownSpecVersion(version) == "Unknown spec version '" \o ToString(version) \o "'"

\* Leaf types.
TypeNumber ==
    NewSpec([Closure EXCEPT !.op = "Type.number"], Definition("number", <<>>, <<>>))
TypeString ==
    NewSpec([Closure EXCEPT !.op = "Type.string"], Definition("string", <<>>, <<>>))
TypeUnknown ==
    NewSpec([Closure EXCEPT !.op = "Type.unknown"], Definition("unknown", <<>>, <<>>))

NumberEval(v) ==
    IF v.t # "number"
    THEN Ret(Err(Leaf("type.number.not_a_number", v, "Not a number.")),
             <<Called("spec", "Type.number", 0, v)>>)
    ELSE Ret(Ok(v), <<Called("spec", "Type.number", 0, v)>>)

StringEval(v) ==
    IF v.t # "string"
    THEN Ret(Err(Leaf("type.string.not_a_string", v, "Not a string.")),
             <<Called("spec", "Type.string", 0, v)>>)
    ELSE Ret(Ok(v), <<Called("spec", "Type.string", 0, v)>>)

UnknownEval(v) == Ret(Ok(v), <<Called("spec", "Type.unknown", 0, v)>>)

\* constrain(spec, constraints): the spec it returns.
constrain(s, constraints) ==
    LET removed == removeAlias(s.definition)
    IN  NewSpec([Closure EXCEPT !.op = "constrain",
                                !.specs = <<[s EXCEPT !.definition = removed.specDef]>>,
                                !.constraints = constraints],
                [removed.def EXCEPT
                    !.hasConstraints = TRUE,
                    !.constraints = removed.specDef.constraints
                                    \o [i \in DOMAIN constraints |->
                                           ConstraintDefinition(constraints[i])]])

\* optional(spec, options): eval is spec.eval, the marker and the default
\* are properties of the returned spec.
OptionalDefinition(specDef) ==
    [specDef EXCEPT !.hasFlags = TRUE, !.flags = Append(specDef.flags, "optional")]
optional(s) == [NewSpec(s.eval, OptionalDefinition(s.definition)) EXCEPT !.optional = TRUE]
optionalWithDefault(s, defaultValue) ==
    IF defaultValue.t # "undefined"
    THEN [NewSpec(s.eval, [OptionalDefinition(s.definition) EXCEPT
                               !.hasDefaultValue = TRUE, !.defaultValue = defaultValue])
          EXCEPT !.optional = FALSE, !.hasDefault = TRUE,
                                 !.defaultValue = defaultValue]
    ELSE optional(s)

\* Mutant of adjust: the adjustments record the new options over the existing ones.
adjustRecordingLatest(s, adjustedOptions) ==
    LET removed == removeAlias(s.definition)
    IN  NewSpec([Closure EXCEPT !.op = "adjust",
                                !.specs = <<[s EXCEPT !.definition = removed.specDef]>>,
                                !.adjustedOptions = adjustedOptions],
                [removed.def EXCEPT
                    !.hasAdjustments = TRUE,
                    !.adjustments = Merge(removed.specDef.adjustments, adjustedOptions)])

\* adjust(spec, adjustedOptions)
adjust(s, adjustedOptions) ==
    LET removed == removeAlias(s.definition)
    IN  NewSpec([Closure EXCEPT !.op = "adjust",
                                !.specs = <<[s EXCEPT !.definition = removed.specDef]>>,
                                !.adjustedOptions = adjustedOptions],
                [removed.def EXCEPT
                    !.hasAdjustments = TRUE,
                    !.adjustments = Merge(adjustedOptions, removed.specDef.adjustments)])

\* either(...specs)
either(specs) ==
    NewSpec([Closure EXCEPT !.op = "either", !.specs = specs],
            Definition("either", [i \in DOMAIN specs |-> ToString(i)], Definitions(specs)))

\* Composite types.  attrs[i] is the schema attribute that specs[i] describes.
TypeArray(s) ==
    NewSpec([Closure EXCEPT !.op = "Type.array", !.specs = <<s>>],
            Definition("array", <<"element">>, <<s.definition>>))
TypeTuple(specs) ==
    NewSpec([Closure EXCEPT !.op = "Type.tuple", !.specs = specs],
            Definition("tuple", [i \in DOMAIN specs |-> ToString(i - 1)],
                       Definitions(specs)))
TypeObject(attrs, specs) ==
    NewSpec([Closure EXCEPT !.op = "Type.object", !.typeName = "object",
                            !.attrs = attrs, !.specs = specs, !.strict = TRUE],
            Definition("object", attrs, Definitions(specs)))

\* Mutant of TypeInterface: strict by default.
TypeInterfaceStrict(attrs, specs) ==
    NewSpec([Closure EXCEPT !.op = "Type.object", !.typeName = "interface",
                            !.attrs = attrs, !.specs = specs, !.strict = TRUE],
            Definition("interface", attrs, Definitions(specs)))

TypeInterface(attrs, specs) ==
    NewSpec([Closure EXCEPT !.op = "Type.object", !.typeName = "interface",
                            !.attrs = attrs, !.specs = specs, !.strict = FALSE],
            Definition("interface", attrs, Definitions(specs)))
TypeMap(keySpec, valueSpec) ==
    NewSpec([Closure EXCEPT !.op = "Type.map", !.specs = <<keySpec, valueSpec>>],
            Definition("map", <<"key", "value">>, <<keySpec.definition, valueSpec.definition>>))

(***************************************************************************)
(* The failures of the composite types: an aggregate holds the list of     *)
(* nested errors, a wrapper holds one nested failure under a key.          *)
(***************************************************************************)
Aggregate(code, v, message, nestedErrors) ==
    [NoFailure EXCEPT !.code = code, !.value = v, !.message = message,
                      !.hasNested = TRUE, !.nestedErrors = nestedErrors]
Wrapped(code, key, v, message, nested) ==
    [NoFailure EXCEPT !.code = code, !.value = v, !.message = message, !.key = key,
                      !.hasNested = TRUE, !.nestedErrors = <<nested>>]
Keyed(code, key, v, message) ==
    [NoFailure EXCEPT !.code = code, !.value = v, !.message = message, !.key = key]

(***************************************************************************)
(* Settings of a composite type: built-in defaults, overlaid by the global *)
(* options, overlaid by the local options.                                 *)
(***************************************************************************)
\* Mutant of ArraySettings: the local options are not read.
ArraySettingsWithoutLocal(options) ==
    Merge([failEarly |-> FALSE, skipInvalid |-> FALSE], options.global)
ArraySettings(options) ==
    Merge(Merge([failEarly |-> FALSE, skipInvalid |-> FALSE], options.global), options.local)
TupleSettings(options) ==
    Merge(Merge([failEarly |-> FALSE], options.global), options.local)
\* Mutant of ObjectSettings: the global options are overlaid last.
ObjectSettingsGlobalLast(strictDefault, options) ==
    Merge(Merge([strict |-> strictDefault, failEarly |-> FALSE], options.local),
          options.global)
ObjectSettings(strictDefault, options) ==
    Merge(Merge([strict |-> strictDefault, failEarly |-> FALSE], options.global),
          options.local)
MapSettings(options) ==
    Merge(Merge([failEarly |-> FALSE, skipInvalidKeys |-> FALSE,
                 skipInvalidValues |-> FALSE], options.global), options.local)

\* Mutant of LoopContinues: the loop never looks at failEarly.
LoopContinuesToTheEnd(settings, nestedErrors) == TRUE

\* The second conjunct of the loop conditions of the composite types.
LoopContinues(settings, nestedErrors) == ~settings.failEarly \/ Len(nestedErrors) = 0

\* Mutant of NestedOptions: the nested spec inherits the local options.
NestedOptionsInherited(options) == options

\* The options a composite type hands to a nested spec.
NestedOptions(options) == [local |-> NoOptions, global |-> options.global]

\* The options either hands to an alternative.
AlternativeOptions(options) == [local |-> NoOptions, global |-> options.global]

\* Mutant of AdjustedOptions: the adjusted options win over the caller's.
AdjustedOptionsOnTop(adjustedOptions, options) ==
    [local |-> Merge(options.local, adjustedOptions), global |-> options.global]

\* The options adjust hands to the wrapped spec.
AdjustedOptions(adjustedOptions, options) ==
    [local |-> Merge(adjustedOptions, options.local), global |-> options.global]

(***************************************************************************)
(* Evaluation.  Eval(e, v, options) is the call e(v, options) of the       *)
(* evaluation closure e.                                                   *)
(***************************************************************************)
RECURSIVE Eval(_, _, _)
RECURSIVE RunConstraints(_, _, _, _)
RECURSIVE EitherLoop(_, _, _, _, _, _)
RECURSIVE ArrayLoop(_, _, _, _, _, _, _, _)
RECURSIVE TupleLoop(_, _, _, _, _, _, _, _)
RECURSIVE ExtraKeyLoop(_, _, _, _, _)
RECURSIVE AttrLoop(_, _, _, _, _, _, _, _)
RECURSIVE MapLoop(_, _, _, _, _, _, _, _)

\* Mutant of RunConstraints: an exception of a constraint check is caught and
\* reported as a failure.
RunConstraintsCatching(constraints, i, candidateResult, log) ==
    IF i > Len(constraints)
    THEN Ret(candidateResult, log)
    ELSE LET c == constraints[i]
             r == ConstraintEval(c, candidateResult.value)
             called == Append(log, Called("constraint", c.name, c.limit, candidateResult.value))
                       \o r.calls
         IN  IF r.threw
             THEN Ret(Err(Leaf("constraint.error", candidateResult.value, r.exc)), called)
             ELSE IF r.hasErr THEN Ret(Err(r.err), called)
             ELSE RunConstraints(constraints, i + 1, candidateResult, called)

\* Mutant of RunConstraints: the constraints after a failing one are checked too.
RunConstraintsToTheEnd(constraints, i, candidateResult, log) ==
    IF i > Len(constraints)
    THEN Ret(candidateResult, log)
    ELSE LET c == constraints[i]
             r == ConstraintEval(c, candidateResult.value)
             called == Append(log, Called("constraint", c.name, c.limit, candidateResult.value))
                       \o r.calls
             rest == RunConstraints(constraints, i + 1, candidateResult, called)
         IN  IF r.threw THEN Throw(r.exc, called)
             ELSE IF r.hasErr
                  THEN IF rest.threw THEN rest ELSE Ret(Err(r.err), rest.log)
             ELSE rest

\* constrain: the loop over the constraints, from constraint i on.
RunConstraints(constraints, i, candidateResult, log) ==
    IF i > Len(constraints)
    THEN Ret(candidateResult, log)
    ELSE LET c == constraints[i]
             r == ConstraintEval(c, candidateResult.value)
             called == Append(log, Called("constraint", c.name, c.limit, candidateResult.value))
                       \o r.calls
         IN  IF r.threw THEN Throw(r.exc, called)
             ELSE IF r.hasErr THEN Ret(Err(r.err), called)
             ELSE RunConstraints(constraints, i + 1, candidateResult, called)

\* Mutant of ConstrainEval: the wrapped spec gets no local options.
ConstrainEvalWithoutLocal(e, v, options) ==
    LET candidateResult == Eval(e.specs[1].eval, v, NestedOptions(options))
    IN  IF candidateResult.threw THEN candidateResult
        ELSE IF candidateResult.res.ok
             THEN RunConstraints(e.constraints, 1, candidateResult.res, candidateResult.log)
             ELSE candidateResult

\* constrain: the eval of the returned spec.
ConstrainEval(e, v, options) ==
    LET candidateResult == Eval(e.specs[1].eval, v, options)
    IN  IF candidateResult.threw THEN candidateResult
        ELSE IF candidateResult.res.ok
             THEN RunConstraints(e.constraints, 1, candidateResult.res, candidateResult.log)
             ELSE candidateResult

\* adjust: the eval of the returned spec.
AdjustEval(e, v, options) ==
    Eval(e.specs[1].eval, v, AdjustedOptions(e.adjustedOptions, options))

\* either: the failure when no alternative matches.
NoMatchingSpec(v, validationErrors) ==
    Aggregate("either.no_matching_spec", v,
              "Evaluation of value failed for every possible spec.", validationErrors)

\* Mutant of EitherLoop: under failEarly the loop ends at the first failing
\* alternative.
EitherLoopFailEarly(specs, i, v, options, validationErrors, log) ==
    IF i > Len(specs)
       \/ (Len(validationErrors) > 0
           /\ Merge([failEarly |-> FALSE], options.global).failEarly)
    THEN Ret(Err(NoMatchingSpec(v, validationErrors)), log)
    ELSE LET r == Eval(specs[i].eval, v, AlternativeOptions(options))
         IN  IF r.threw THEN Throw(r.exc, log \o r.log)
             ELSE IF ~r.res.ok
                  THEN EitherLoop(specs, i + 1, v, options,
                                  Append(validationErrors, r.res.err), log \o r.log)
                  ELSE Ret(r.res, log \o r.log)

\* either: the loop over the alternatives, from alternative i on.
EitherLoop(specs, i, v, options, validationErrors, log) ==
    IF i > Len(specs)
    THEN Ret(Err(NoMatchingSpec(v, validationErrors)), log)
    ELSE LET r == Eval(specs[i].eval, v, AlternativeOptions(options))
         IN  IF r.threw THEN Throw(r.exc, log \o r.log)
             ELSE IF ~r.res.ok
                  THEN EitherLoop(specs, i + 1, v, options,
                                  Append(validationErrors, r.res.err), log \o r.log)
                  ELSE Ret(r.res, log \o r.log)

EitherEval(e, v, options) == EitherLoop(e.specs, 1, v, options, <<>>, <<>>)

(***************************************************************************)
(* Type.array                                                              *)
(***************************************************************************)
ArrayInvalidElement(i, element, err) ==
    Wrapped("type.array.invalid_element", Num(i), element,
            "Evaluation of array element at index \"" \o ToString(i) \o "\" failed.", err)
ArrayInvalidElements(data, nestedErrors) ==
    Aggregate("type.array.invalid_elements", data, "Array validation failed.", nestedErrors)

\* The loop over the elements, from the element at (0-based) index i on.
ArrayLoop(s, data, i, options, settings, values, nestedErrors, log) ==
    IF ~(i < Len(data.items) /\ LoopContinues(settings, nestedErrors))
    THEN IF Len(nestedErrors) > 0
         THEN Ret(Err(ArrayInvalidElements(data, nestedErrors)), log)
         ELSE Ret(Ok(Arr(values)), log)
    ELSE LET r == Eval(s.eval, data.items[i + 1], NestedOptions(options))
         IN  IF r.threw THEN Throw(r.exc, log \o r.log)
             ELSE IF r.res.ok
                  THEN ArrayLoop(s, data, i + 1, options, settings,
                                 Append(values, r.res.value), nestedErrors, log \o r.log)
             ELSE IF ~settings.skipInvalid
                  THEN ArrayLoop(s, data, i + 1, options, settings, values,
                                 Append(nestedErrors,
                                        ArrayInvalidElement(i, data.items[i + 1], r.res.err)),
                                 log \o r.log)
             ELSE ArrayLoop(s, data, i + 1, options, settings, values, nestedErrors,
                            log \o r.log)

ArrayEval(e, data, options) ==
    LET settings == ArraySettings(options)
    IN  IF data.t # "array"
        THEN Ret(Err(Leaf("type.array.not_an_array", data, "Not an array.")), <<>>)
        ELSE ArrayLoop(e.specs[1], data, 0, options, settings, <<>>, <<>>, <<>>)

(***************************************************************************)
(* Type.tuple                                                              *)
(***************************************************************************)
TupleInvalidElement(i, element, err) ==
    Wrapped("type.tuple.invalid_element", Num(i), element,
            "Evaluation of tuple element at index \"" \o ToString(i) \o "\" failed.", err)
TupleInvalidElements(data, nestedErrors) ==
    Aggregate("type.tuple.invalid_elements", data, "Tuple validation failed.", nestedErrors)

TupleLoop(specs, data, i, options, settings, values, nestedErrors, log) ==
    IF ~(i < Len(specs) /\ LoopContinues(settings, nestedErrors))
    THEN IF Len(nestedErrors) > 0
         THEN Ret(Err(TupleInvalidElements(data, nestedErrors)), log)
         ELSE Ret(Ok(Arr(values)), log)
    ELSE LET r == Eval(specs[i + 1].eval, data.items[i + 1], NestedOptions(options))
         IN  IF r.threw THEN Throw(r.exc, log \o r.log)
             ELSE IF r.res.ok
                  THEN TupleLoop(specs, data, i + 1, options, settings,
                                 Append(values, r.res.value), nestedErrors, log \o r.log)
             ELSE TupleLoop(specs, data, i + 1, options, settings, values,
                            Append(nestedErrors,
                                   TupleInvalidElement(i, data.items[i + 1], r.res.err)),
                            log \o r.log)

\* Mutant of TupleEval: a list that is longer than the tuple is accepted.
TupleEvalOfPrefix(e, data, options) ==
    LET settings == TupleSettings(options)
    IN  IF data.t # "array"
        THEN Ret(Err(Leaf("type.tuple.not_a_tuple", data, "Not a tuple.")), <<>>)
        ELSE IF Len(data.items) < Len(e.specs)
        THEN Ret(Err(Leaf("type.tuple.incorrect_length", data, "Incorrect tuple length.")),
                 <<>>)
        ELSE TupleLoop(e.specs, data, 0, options, settings, <<>>, <<>>, <<>>)

TupleEval(e, data, options) ==
    LET settings == TupleSettings(options)
    IN  IF data.t # "array"
        THEN Ret(Err(Leaf("type.tuple.not_a_tuple", data, "Not a tuple.")), <<>>)
        ELSE IF Len(data.items) # Len(e.specs)
        THEN Ret(Err(Leaf("type.tuple.incorrect_length", data, "Incorrect tuple length.")),
                 <<>>)
        ELSE TupleLoop(e.specs, data, 0, options, settings, <<>>, <<>>, <<>>)

(***************************************************************************)
(* Type.object and Type.interface                                          *)
(***************************************************************************)
ObjectCode(e, reason) == "type." \o e.typeName \o "." \o reason

ExtraAttribute(e, attr, data) ==
    Keyed(ObjectCode(e, "extra_attribute"), Str(attr), data,
          "Data has attribute that is not part of the schema: \"" \o attr \o "\".")
MissingAttribute(e, attr, data) ==
    Keyed(ObjectCode(e, "missing_attribute"), Str(attr), data,
          "Attribute not present: \"" \o attr \o "\".")
InvalidAttribute(e, attr, v, err) ==
    Wrapped(ObjectCode(e, "invalid_attribute"), Str(attr), v,
            "Evaluation of attribute \"" \o attr \o "\" failed.", err)
InvalidAttributeData(e, data, nestedErrors) ==
    Aggregate(ObjectCode(e, "invalid_attribute_data"), data, "Object validation failed.",
              nestedErrors)

\* Mutant of ExtraKeyLoop: the scan ends at the first key that is not in the schema.
ExtraKeyLoopFirstOnly(e, data, i, settings, nestedErrors) ==
    IF ~(i < Len(data.keys) /\ Len(nestedErrors) = 0)
    THEN nestedErrors
    ELSE IF data.keys[i + 1] \in Range(e.attrs)
         THEN ExtraKeyLoop(e, data, i + 1, settings, nestedErrors)
         ELSE ExtraKeyLoop(e, data, i + 1, settings,
                           Append(nestedErrors, ExtraAttribute(e, data.keys[i + 1], data)))

\* Mutant of ExtraKeyLoop: the scan does not look at failEarly.
ExtraKeyLoopToTheEnd(e, data, i, settings, nestedErrors) ==
    IF ~(i < Len(data.keys))
    THEN nestedErrors
    ELSE IF data.keys[i + 1] \in Range(e.attrs)
         THEN ExtraKeyLoop(e, data, i + 1, settings, nestedErrors)
         ELSE ExtraKeyLoop(e, data, i + 1, settings,
                           Append(nestedErrors, ExtraAttribute(e, data.keys[i + 1], data)))

\* Strict mode: the scan of the input keys for keys that are not in the schema,
\* from the key at (0-based) index i on.
ExtraKeyLoop(e, data, i, settings, nestedErrors) ==
    IF ~(i < Len(data.keys) /\ LoopContinues(settings, nestedErrors))
    THEN nestedErrors
    ELSE IF data.keys[i + 1] \in Range(e.attrs)
         THEN ExtraKeyLoop(e, data, i + 1, settings, nestedErrors)
         ELSE ExtraKeyLoop(e, data, i + 1, settings,
                           Append(nestedErrors, ExtraAttribute(e, data.keys[i + 1], data)))

\* What becomes of a schema attribute that the input lacks.
AbsentAttribute(attrSpec) ==
    IF attrSpec.hasDefault THEN "default"
    ELSE IF attrSpec.optional THEN "omit"
    ELSE "missing"

\* The loop over the schema attributes, from attribute index i (0-based) on.
AttrLoop(e, data, attrIndex, options, settings, model, nestedErrors, log) ==
    IF ~(attrIndex < Len(e.attrs) /\ LoopContinues(settings, nestedErrors))
    THEN IF Len(nestedErrors) > 0
         THEN Ret(Err(InvalidAttributeData(e, data, nestedErrors)), log)
         ELSE Ret(Ok(model), log)
    ELSE LET attr == e.attrs[attrIndex + 1]
             attrSpec == e.specs[attrIndex + 1]
         IN  IF ~HasKey(data, attr)
             THEN CASE AbsentAttribute(attrSpec) = "missing" ->
                         AttrLoop(e, data, attrIndex + 1, options, settings, model,
                                  Append(nestedErrors, MissingAttribute(e, attr, data)), log)
                    [] AbsentAttribute(attrSpec) = "default" ->
                         AttrLoop(e, data, attrIndex + 1, options, settings,
                                  SetAttr(model, attr, attrSpec.defaultValue),
                                  nestedErrors, log)
                    [] OTHER ->
                         AttrLoop(e, data, attrIndex + 1, options, settings, model,
                                  nestedErrors, log)
             ELSE LET v == GetAttr(data, attr)
                      r == Eval(attrSpec.eval, v, NestedOptions(options))
                  IN  IF r.threw THEN Throw(r.exc, log \o r.log)
                      ELSE IF r.res.ok
                           THEN AttrLoop(e, data, attrIndex + 1, options, settings,
                                         SetAttr(model, attr, r.res.value), nestedErrors,
                                         log \o r.log)
                      ELSE AttrLoop(e, data, attrIndex + 1, options, settings, model,
                                    Append(nestedErrors,
                                           InvalidAttribute(e, attr, v, r.res.err)),
                                    log \o r.log)

ObjectEval(e, data, options) ==
    LET settings == ObjectSettings(e.strict, options)
    IN  IF data.t # "object"
        THEN Ret(Err(Leaf(ObjectCode(e, "not_a_regular_object"), data,
                          "Not a regular object.")), <<>>)
        ELSE LET extra == IF settings.strict
                          THEN ExtraKeyLoop(e, data, 0, settings, <<>>)
                          ELSE <<>>
             IN  AttrLoop(e, data, 0, options, settings, Obj(<<>>, <<>>), extra, <<>>)

(***************************************************************************)
(* Type.map                                                                *)
(***************************************************************************)
MapInvalidKey(dk, err) ==
    Wrapped("type.map.invalid_key", Str(dk), Str(dk),
            "Evaluation of map key \"" \o dk \o "\" failed.", err)
MapInvalidValue(dk, v, err) ==
    Wrapped("type.map.invalid_value", Str(dk), v,
            "Evaluation of map value for key \"" \o dk \o "\" failed.", err)
MapInvalidData(data, nestedErrors) ==
    Aggregate("type.map.invalid_data", data, "Map validation failed.", nestedErrors)

\* Mutant of MapLoop: the value is evaluated whether or not the key is valid.
MapLoopEvaluatingEveryValue(e, data, dataKeyIndex, options, settings, res, nestedErrors, log) ==
    IF ~(dataKeyIndex < Len(data.keys) /\ LoopContinues(settings, nestedErrors))
    THEN IF Len(nestedErrors) > 0
         THEN Ret(Err(MapInvalidData(data, nestedErrors)), log)
         ELSE Ret(Ok(res), log)
    ELSE LET dk == data.keys[dataKeyIndex + 1]
             rk == Eval(e.specs[1].eval, Str(dk), NestedOptions(options))
             rv == Eval(e.specs[2].eval, data.items[dataKeyIndex + 1],
                        NestedOptions(options))
         IN  IF rk.threw THEN Throw(rk.exc, log \o rk.log)
             ELSE IF rv.threw THEN Throw(rv.exc, log \o rk.log \o rv.log)
             ELSE IF ~rk.res.ok
                  THEN MapLoop(e, data, dataKeyIndex + 1, options, settings, res,
                               IF ~settings.skipInvalidKeys
                               THEN Append(nestedErrors, MapInvalidKey(dk, rk.res.err))
                               ELSE nestedErrors,
                               log \o rk.log \o rv.log)
             ELSE IF ~rv.res.ok
                  THEN MapLoop(e, data, dataKeyIndex + 1, options, settings, res,
                               IF ~settings.skipInvalidValues
                               THEN Append(nestedErrors,
                                           MapInvalidValue(dk, data.items[dataKeyIndex + 1],
                                                           rv.res.err))
                               ELSE nestedErrors,
                               log \o rk.log \o rv.log)
             ELSE MapLoop(e, data, dataKeyIndex + 1, options, settings,
                          SetAttr(res, rk.res.value.s, rv.res.value),
                          nestedErrors, log \o rk.log \o rv.log)

\* The loop over the input keys, from the key at (0-based) index i on.
MapLoop(e, data, dataKeyIndex, options, settings, res, nestedErrors, log) ==
    IF ~(dataKeyIndex < Len(data.keys) /\ LoopContinues(settings, nestedErrors))
    THEN IF Len(nestedErrors) > 0
         THEN Ret(Err(MapInvalidData(data, nestedErrors)), log)
         ELSE Ret(Ok(res), log)
    ELSE LET dk == data.keys[dataKeyIndex + 1]
             rk == Eval(e.specs[1].eval, Str(dk), NestedOptions(options))
         IN  IF rk.threw THEN Throw(rk.exc, log \o rk.log)
             ELSE IF ~rk.res.ok
                  THEN MapLoop(e, data, dataKeyIndex + 1, options, settings, res,
                               IF ~settings.skipInvalidKeys
                               THEN Append(nestedErrors, MapInvalidKey(dk, rk.res.err))
                               ELSE nestedErrors,
                               log \o rk.log)
             ELSE LET rv == Eval(e.specs[2].eval, data.items[dataKeyIndex + 1],
                                 NestedOptions(options))
                  IN  IF rv.threw THEN Throw(rv.exc, log \o rk.log \o rv.log)
                      ELSE IF ~rv.res.ok
                           THEN MapLoop(e, data, dataKeyIndex + 1, options, settings, res,
                                        IF ~settings.skipInvalidValues
                                        THEN Append(nestedErrors,
                                                    MapInvalidValue(dk,
                                                        data.items[dataKeyIndex + 1],
                                                        rv.res.err))
                                        ELSE nestedErrors,
                                        log \o rk.log \o rv.log)
                      ELSE MapLoop(e, data, dataKeyIndex + 1, options, settings,
                                   SetAttr(res, rk.res.value.s, rv.res.value),
                                   nestedErrors, log \o rk.log \o rv.log)

MapEval(e, data, options) ==
    LET settings == MapSettings(options)
    IN  IF data.t # "object"
        THEN Ret(Err(Leaf("type.map.not_a_regular_object", data, "Not a regular object.")),
                 <<>>)
        ELSE MapLoop(e, data, 0, options, settings, Obj(<<>>, <<>>), <<>>, <<>>)

Eval(e, v, options) ==
    CASE e.op = "Type.number" -> NumberEval(v)
      [] e.op = "Type.string" -> StringEval(v)
      [] e.op = "Type.unknown" -> UnknownEval(v)
      [] e.op = "constrain" -> ConstrainEval(e, v, options)
      [] e.op = "adjust" -> AdjustEval(e, v, options)
      [] e.op = "either" -> EitherEval(e, v, options)
      [] e.op = "Type.array" -> ArrayEval(e, v, options)
      [] e.op = "Type.tuple" -> TupleEval(e, v, options)
      [] e.op = "Type.object" -> ObjectEval(e, v, options)
      [] e.op = "Type.map" -> MapEval(e, v, options)

(***************************************************************************)
(* ValidationError: the error that value() throws.  Its nestedErrors field *)
(* is always a list.                                                       *)
(***************************************************************************)
RECURSIVE ValidationError(_, _)
ValidationError(message, options) ==
    [code |-> options.code,
     value |-> options.value,
     message |-> message,
     key |-> options.key,
     hasNested |-> TRUE,
     nestedErrors |-> IF options.hasNested
                      THEN [i \in DOMAIN options.nestedErrors |->
                              ValidationError(options.nestedErrors[i].message,
                                              options.nestedErrors[i])]
                      ELSE <<>>]

(***************************************************************************)
(* verify                                                                  *)
(***************************************************************************)
NoResult ==
    [threw |-> FALSE, exc |-> "", hasErr |-> FALSE, err |-> NoFailure, value |-> Undefined]

\* The options verify evaluates the spec with.
RootOptions(g) == [local |-> NoOptions, global |-> g]

\* verify(spec, value, globalOptions): the VerifyResult, or the exception.
verify(s, v, g) ==
    IF s.version = 1
    THEN LET r == Eval(s.eval, v, RootOptions(g))
         IN  IF r.threw
             THEN [NoResult EXCEPT !.threw = TRUE, !.exc = r.exc]
             ELSE IF ~r.res.ok
                  THEN [NoResult EXCEPT !.hasErr = TRUE, !.err = r.res.err]
                  ELSE [NoResult EXCEPT !.value = r.res.value]
    ELSE [NoResult EXCEPT !.threw = TRUE, !.exc = UnknownSpecVersion(s.version)]

\* The evaluator and constraint calls that verify(spec, value, globalOptions) makes.
verifyLog(s, v, g) ==
    IF s.version = 1 THEN Eval(s.eval, v, RootOptions(g)).log ELSE <<>>

\* definitionOf(spec): the definition, or the exception.
NoDefinition == [threw |-> FALSE, exc |-> "", definition |-> Definition("", <<>>, <<>>)]
definitionOf(s) ==
    IF s.version = 1
    THEN [NoDefinition EXCEPT !.definition = s.definition]
    ELSE [NoDefinition EXCEPT !.threw = TRUE, !.exc = UnknownSpecVersion(s.version)]

\* Mutant of valueOf: the error is built from the message alone.
valueOfMessageOnly(res) ==
    IF res.hasErr
    THEN [threw |-> TRUE,
          error |-> [NoFailure EXCEPT !.message = res.err.message, !.hasNested = TRUE],
          value |-> Undefined]
    ELSE [threw |-> FALSE, error |-> NoFailure, value |-> res.value]

\* result.value(): what it returns or throws.
valueOf(res) ==
    IF res.hasErr
    THEN [threw |-> TRUE, error |-> ValidationError(res.err.message, res.err),
          value |-> Undefined]
    ELSE [threw |-> FALSE, error |-> NoFailure, value |-> res.value]

(***************************************************************************)
(* FormatValidationFailure.generateErrorPathList.  An entry of the list    *)
(* has a path and, as the include options say, msg, code and value.        *)
(***************************************************************************)
NoEntry ==
    [path |-> <<>>, hasMsg |-> FALSE, msg |-> "", hasCode |-> FALSE, code |-> "",
     hasValue |-> FALSE, value |-> Undefined]
PathEntry(path, msg, code, v, options) ==
    [path |-> path,
     hasMsg |-> options.include.message,
     msg |-> IF options.include.message THEN msg ELSE "",
     hasCode |-> options.include.code,
     code |-> IF options.include.code THEN code ELSE "",
     hasValue |-> options.include.value,
     value |-> IF options.include.value THEN v ELSE Undefined]

\* The include options with their defaults: the message unless it is turned
\* off, code and value only when they are turned on.
ErrorReportOptionsImpl(include) ==
    [include |->
        [message |-> IF "message" \in DOMAIN include THEN include.message ELSE TRUE,
         code |-> IF "code" \in DOMAIN include THEN include.code ELSE FALSE,
         value |-> IF "value" \in DOMAIN include THEN include.value ELSE FALSE]]

RECURSIVE generateErrorPathListImpl(_, _)
RECURSIVE NestedPathList(_, _, _)

\* Mutant of generateErrorPathListImpl: an empty nestedErrors list makes a leaf.
generateErrorPathListImplByLength(err, options) ==
    LET pathKey == IF err.key # Undefined THEN <<err.key>> ELSE <<>>
    IN  IF err.hasNested /\ err.nestedErrors # <<>>
        THEN NestedPathList(err.nestedErrors, pathKey, options)
        ELSE <<PathEntry(pathKey, err.message, err.code, err.value, options)>>

generateErrorPathListImpl(err, options) ==
    LET pathKey == IF err.key # Undefined THEN <<err.key>> ELSE <<>>
    IN  IF err.hasNested
        THEN NestedPathList(err.nestedErrors, pathKey, options)
        ELSE <<PathEntry(pathKey, err.message, err.code, err.value, options)>>

\* The reduce over nestedErrors: the entries of each nested failure in turn,
\* their paths prefixed by pathKey.
NestedPathList(nestedErrors, pathKey, options) ==
    IF nestedErrors = <<>>
    THEN <<>>
    ELSE LET neps == generateErrorPathListImpl(Head(nestedErrors), options)
         IN  [i \in DOMAIN neps |->
                 PathEntry(pathKey \o neps[i].path, neps[i].msg, neps[i].code,
                           neps[i].value, options)]
             \o NestedPathList(Tail(nestedErrors), pathKey, options)

generateErrorPathList(err, include) ==
    generateErrorPathListImpl(err, ErrorReportOptionsImpl(include))

NoPathList == [err |-> NoFailure, include |-> NoOptions, list |-> <<>>]

(***************************************************************************)
(* extractAliases.  A stub { alias: name } is a definition with no field   *)
(* but the alias; aliases maps the names met to their definitions.  The    *)
(* result holds, next to what the code returns, the argument def as it is  *)
(* after the call.                                                         *)
(***************************************************************************)
Stub(name) == [Definition("", <<>>, <<>>) EXCEPT !.hasAlias = TRUE, !.alias = name]
NoAliases == [name \in {} |-> Stub(name)]
Assigned(aliases, name, def) ==
    [k \in DOMAIN aliases \cup {name} |-> IF k = name THEN def ELSE aliases[k]]

RECURSIVE extractAliasesImpl(_, _)
RECURSIVE ExtractNested(_, _)

\* Mutant of ExtractNested: the nested definitions are taken over as they are.
ExtractNestedAsIs(nested, aliases) ==
    [nested |-> nested, aliases |-> aliases, defs |-> nested]

\* The reduce over the keys of def.nested, in the order of the keys.
ExtractNested(nested, aliases) ==
    IF nested = <<>>
    THEN [nested |-> <<>>, aliases |-> aliases, defs |-> <<>>]
    ELSE LET nt == extractAliasesImpl(Head(nested), aliases)
             rest == ExtractNested(Tail(nested), nt.aliases)
         IN  [nested |-> <<nt.definition>> \o rest.nested,
              aliases |-> rest.aliases,
              defs |-> <<nt.def>> \o rest.defs]

\* Mutant of extractAliasesImpl: the definition is recorded as it was given.
extractAliasesImplRecordingInput(def, aliases) ==
    LET n == ExtractNested(def.nested, aliases)
        aliasedDefinition == [def EXCEPT !.nested = n.nested]
    IN  IF def.hasAlias /\ def.alias # ""
        THEN [definition |-> Stub(def.alias),
              aliases |-> Assigned(n.aliases, def.alias, def),
              def |-> [def EXCEPT !.nested = n.defs]]
        ELSE [definition |-> aliasedDefinition, aliases |-> n.aliases,
              def |-> [def EXCEPT !.nested = n.defs]]

\* Mutant of extractAliasesImpl: a name that has an entry keeps it.
extractAliasesImplKeepingFirst(def, aliases) ==
    LET n == ExtractNested(def.nested, aliases)
        aliasedDefinition == [def EXCEPT !.nested = n.nested]
    IN  IF def.hasAlias /\ def.alias # ""
        THEN [definition |-> Stub(def.alias),
              aliases |-> IF def.alias \in DOMAIN n.aliases
                          THEN n.aliases
                          ELSE Assigned(n.aliases, def.alias, aliasedDefinition),
              def |-> [def EXCEPT !.nested = n.defs]]
        ELSE [definition |-> aliasedDefinition, aliases |-> n.aliases,
              def |-> [def EXCEPT !.nested = n.defs]]

\* _extractAliases(def, aliases)
extractAliasesImpl(def, aliases) ==
    LET n == ExtractNested(def.nested, aliases)
        aliasedDefinition == [def EXCEPT !.nested = n.nested]
    IN  IF def.hasAlias /\ def.alias # ""
        THEN [definition |-> Stub(def.alias),
              aliases |-> Assigned(n.aliases, def.alias, aliasedDefinition),
              def |-> [def EXCEPT !.nested = n.defs]]
        ELSE [definition |-> aliasedDefinition, aliases |-> n.aliases,
              def |-> [def EXCEPT !.nested = n.defs]]

extractAliases(def) == extractAliasesImpl(def, NoAliases)

NoExtraction == [definition |-> Stub(""), aliases |-> NoAliases, def |-> Stub("")]

(***************************************************************************)
(* The calls of the combinators: the spec a call returns, or the exception *)
(* it throws for a spec or constraint of another version than 1.           *)
(***************************************************************************)
NoSpec == [threw |-> FALSE, exc |-> "", hasSpec |-> FALSE, spec |-> TypeUnknown]
Returned(s) == [NoSpec EXCEPT !.hasSpec = TRUE, !.spec = s]
Thrown(message) == [NoSpec EXCEPT !.threw = TRUE, !.exc = message]

\* The versions of a list, as a template literal writes an array.
RECURSIVE Joined(_)
Joined(versions) ==
    IF versions = <<>> THEN ""
    ELSE IF Len(versions) = 1 THEN ToString(Head(versions))
    ELSE ToString(Head(versions)) \o "," \o Joined(Tail(versions))
Versions(list) == [i \in DOMAIN list |-> list[i].version]
UnknownSpecVersions(specs) == "Unknown spec version '" \o Joined(Versions(specs)) \o "'"
UnknownConstraintVersion(constraints) ==
    "Unknown constraint version '" \o Joined(Versions(constraints)) \o "'"

\* Mutant of CallConstrain: the versions of the constraints are not looked at.
CallConstrainAnyConstraint(s, constraints) ==
    IF s.version = 1
    THEN Returned(constrain(s, constraints))
    ELSE Thrown(UnknownSpecVersion(s.version))

CallAlias(aliasName, s) ==
    IF s.version = 1
    THEN Returned(alias(aliasName, s))
    ELSE Thrown(UnknownSpecVersion(s.version))
CallConstrain(s, constraints) ==
    IF s.version = 1
    THEN IF \A i \in DOMAIN constraints : constraints[i].version = 1
         THEN Returned(constrain(s, constraints))
         ELSE Thrown(UnknownConstraintVersion(constraints))
    ELSE Thrown(UnknownSpecVersion(s.version))
CallOptional(s, defaultValue) ==
    IF s.version = 1
    THEN Returned(optionalWithDefault(s, defaultValue))
    ELSE Thrown(UnknownSpecVersion(s.version))
CallAdjust(s, adjustedOptions) ==
    IF s.version = 1
    THEN Returned(adjust(s, adjustedOptions))
    ELSE Thrown(UnknownSpecVersion(s.version))
CallEither(specs) ==
    IF \A i \in DOMAIN specs : specs[i].version = 1
    THEN Returned(either(specs))
    ELSE Thrown(UnknownSpecVersions(specs))

\* A call of a combinator with its arguments.
Call(c) ==
    CASE c.op = "alias" -> CallAlias(c.aliasName, c.specs[1])
      [] c.op = "constrain" -> CallConstrain(c.specs[1], c.constraints)
      [] c.op = "optional" -> CallOptional(c.specs[1], c.defaultValue)
      [] c.op = "adjust" -> CallAdjust(c.specs[1], c.adjustedOptions)
      [] c.op = "either" -> CallEither(c.specs)

(***************************************************************************)
(* The specs and input values that the model verifies.                     *)
(***************************************************************************)
DistinctSeqsUpTo(S, n) == {q \in SeqsUpTo(S, n) : \A i, j \in DOMAIN q : i # j => q[i] # q[j]}
Adjusted(S, A) == S \cup {adjust(s, a) : s \in S, a \in A}

GlobalOptionSets == {NoOptions, [failEarly |-> TRUE], [failEarly |-> FALSE]}
FailEarlyOptions == {[failEarly |-> TRUE], [failEarly |-> FALSE]}

positive == constrain(TypeNumber, <<above(0)>>)
erroring == constrain(TypeNumber, <<errorConstraint>>)
numbers == TypeArray(TypeNumber)

ElementSpecs == {TypeNumber, positive, erroring, numbers}
Elements == {Num(1), Num(0), Str("x"), Arr(<<Str("x"), Str("y")>>)}
Arrays == {Arr(q) : q \in SeqsUpTo(Elements, MaxLen)}

ArraySpecs ==
    Adjusted({TypeArray(e) : e \in ElementSpecs},
             FailEarlyOptions \cup {[skipInvalid |-> TRUE]})
TupleSpecs ==
    Adjusted({TypeTuple(q) : q \in SeqsUpTo(ElementSpecs, MaxLen)}, {[failEarly |-> TRUE]})

KeyNames == {"a", "b", "c", "d"}
AttrValues == {Num(1), Str("x")}
Objects ==
    UNION {{Obj(ks, vs) : vs \in [DOMAIN ks -> AttrValues]} :
           ks \in DistinctSeqsUpTo(KeyNames, MaxKeys)}
    \cup {Obj(<<"a">>, <<Undefined>>), Obj(<<"b", "a">>, <<Undefined, Num(1)>>)}
    \cup {Obj(<<"a", "b">>, vs) : vs \in [1..2 -> {Arr(<<Str("x"), Str("y")>>), Arr(<<Num(1)>>)}]}
AttrSpecs == {TypeNumber, optional(TypeNumber), optionalWithDefault(TypeNumber, Num(7))}
Schemas == {<<"a">>, <<"a", "b">>}
ObjectTypes(attrs) ==
    UNION {{TypeObject(attrs, specs), TypeInterface(attrs, specs)} :
           specs \in [DOMAIN attrs -> AttrSpecs]}
ObjectSpecs ==
    Adjusted(UNION {ObjectTypes(attrs) : attrs \in Schemas},
             {[failEarly |-> TRUE], [strict |-> FALSE]})
    \cup {TypeObject(<<"a">>, <<erroring>>), TypeObject(<<"a">>, <<optional(TypeUnknown)>>)}
    \cup Adjusted({TypeObject(<<"a", "b">>, <<numbers, numbers>>)}, FailEarlyOptions)

keyOfAB == constrain(TypeString, <<oneOf(<<Str("a"), Str("b")>>)>>)
erroringKey == constrain(TypeString, <<errorConstraint>>)
MapKeyNames == {"a", "b", "c"}
Maps ==
    UNION {{Obj(ks, vs) : vs \in [DOMAIN ks -> Elements]} :
           ks \in DistinctSeqsUpTo(MapKeyNames, MaxKeys)}
MapSpecs ==
    Adjusted({TypeMap(k, v) : k \in {TypeString, keyOfAB}, v \in {TypeNumber, numbers}},
             FailEarlyOptions \cup {[skipInvalidKeys |-> TRUE], [skipInvalidValues |-> TRUE]})
    \cup {TypeMap(erroringKey, TypeNumber), TypeMap(keyOfAB, erroring)}

Alternatives == {TypeNumber, TypeString, positive, erroring, numbers}
EitherSpecs ==
    Adjusted({either(q) : q \in SeqsUpTo(Alternatives, MaxAlternatives)}, {[failEarly |-> TRUE]})

Constraints == {above(0), below(1), errorConstraint}
ConstrainSpecs ==
    {constrain(s, cs) : s \in {TypeNumber, positive}, cs \in SeqsUpTo(Constraints, MaxConstraints)}

unknownVersion == [TypeNumber EXCEPT !.version = 0]

\* Specs built by alias, constrain and adjust on top of each other.
AliasNames == {"n"}
Aliased(S) == S \cup {alias(a, s) : a \in AliasNames, s \in S}
Constrained(S) ==
    {constrain(s, cs) : s \in S, cs \in SeqsUpTo({above(0), below(1)}, MaxConstraints)}
LocalOptionSets ==
    {[failEarly |-> TRUE], [failEarly |-> FALSE], [strict |-> FALSE],
     [strict |-> TRUE, failEarly |-> TRUE]}
person == TypeObject(<<"a", "b">>, <<TypeNumber, TypeNumber>>)
Persons ==
    {Obj(<<>>, <<>>), Obj(<<"a", "b">>, <<Num(1), Num(1)>>),
     Obj(<<"c", "d">>, <<Num(1), Num(1)>>)}
AdjustedOnce == {adjust(s, o) : s \in Aliased({person}), o \in LocalOptionSets}
AdjustedTwice == {adjust(s, o) : s \in Aliased(AdjustedOnce), o \in LocalOptionSets}
ConstrainedSpecs ==
    Aliased(Constrained(Aliased({TypeNumber, positive, optional(TypeNumber)})))

\* Trees of specs with aliases: a name on two nodes with the same and with
\* another definition, side by side and one inside the other.
AliasedLeaves ==
    {TypeNumber, alias("n", TypeNumber), alias("n", TypeString), alias("m", TypeNumber)}
AliasedArrays ==
    UNION {{TypeArray(l), alias("n", TypeArray(l)), alias("m", TypeArray(l))} :
             l \in AliasedLeaves}
AliasedTrees ==
    UNION {{TypeObject(<<"a", "b">>, <<x, y>>),
            alias("n", TypeObject(<<"a", "b">>, <<x, y>>))} :
             x \in AliasedLeaves \cup AliasedArrays, y \in AliasedLeaves \cup AliasedArrays}

\* Objects whose attribute is an optional spec, as it is and wrapped by
\* constrain, adjust and alias.
WrappedOptionals ==
    {optional(TypeNumber),
     constrain(optional(TypeNumber), <<above(0)>>),
     adjust(optional(TypeNumber), [failEarly |-> TRUE]),
     alias("n", optional(TypeNumber)),
     constrain(optionalWithDefault(TypeNumber, Num(1)), <<above(0)>>)}
WrappedOptionalSpecs == {TypeObject(<<"a">>, <<w>>) : w \in WrappedOptionals}

\* Arrays with and without equal elements, under unique with either equalsFunc.
UniqueSpecs == {constrain(TypeArray(TypeUnknown), <<unique(f)>>) : f \in {"===", "typeof"}}
UniqueValues == {Arr(q) : q \in SeqsUpTo({Num(1), Num(0), Str("x")}, MaxUniqueLen)}

\* adjust on top of constrain, on an array of numbers that has to be unique.
CommutedOptions == {[failEarly |-> TRUE], [skipInvalid |-> TRUE], [skipInvalid |-> FALSE]}
AdjustedConstrained ==
    {adjust(constrain(TypeArray(TypeNumber), <<unique(f)>>), o) :
        f \in {"===", "typeof"}, o \in CommutedOptions}

Inputs ==
    (ArraySpecs \X (Arrays \cup {Num(1)}))
    \cup (TupleSpecs \X (Arrays \cup {Num(1)}))
    \cup (ObjectSpecs \X (Objects \cup {Null, Arr(<<>>)}))
    \cup (MapSpecs \X (Maps \cup {Null}))
    \cup (EitherSpecs \X Elements)
    \cup (ConstrainSpecs \X {Num(0), Num(1), Num(2), Str("x")})
    \cup ({unknownVersion} \X {Num(1)})
    \cup ((AdjustedOnce \cup AdjustedTwice) \X Persons)
    \cup (ConstrainedSpecs \X {Num(0), Num(1)})
    \cup (WrappedOptionalSpecs \X {Obj(<<>>, <<>>), Obj(<<"a">>, <<Num(1)>>)})
    \cup (UniqueSpecs \X UniqueValues)
    \cup (AdjustedConstrained \X UniqueValues)
    \cup (AliasedTrees \X {Obj(<<"a", "b">>, <<Num(1), Arr(<<Num(1)>>)>>)})

\* The calls of the combinators on a spec: with constraints of version 1 and
\* with one of another version, with the spec as either alternative.
unknownConstraint == [above(0) EXCEPT !.version = 0]
NoCall ==
    [op |-> "", specs |-> <<>>, aliasName |-> "", constraints |-> <<>>,
     defaultValue |-> Undefined, adjustedOptions |-> NoOptions]
Calls(s) ==
    {[NoCall EXCEPT !.op = "alias", !.specs = <<s>>, !.aliasName = "n"],
     [NoCall EXCEPT !.op = "constrain", !.specs = <<s>>, !.constraints = <<above(0)>>],
     [NoCall EXCEPT !.op = "constrain", !.specs = <<s>>,
                    !.constraints = <<above(0), unknownConstraint>>],
     [NoCall EXCEPT !.op = "optional", !.specs = <<s>>],
     [NoCall EXCEPT !.op = "adjust", !.specs = <<s>>, !.adjustedOptions = [failEarly |-> TRUE]],
     [NoCall EXCEPT !.op = "either", !.specs = <<s, TypeString>>],
     [NoCall EXCEPT !.op = "either", !.specs = <<TypeString, s>>]}
NoBuild == [call |-> NoCall, outcome |-> NoSpec]

\* The include options that the path list is generated with.
IncludeSets == {NoOptions, [message |-> FALSE, code |-> TRUE]}

(***************************************************************************)
(* The state machine: one verification, then calls of result.value() and   *)
(* one generation of an error path list, or one reading of the definition  *)
(* and one extraction of its aliases, or one call of a combinator.         *)
(***************************************************************************)
Init ==
    /\ \E input \in Inputs : spec = input[1] /\ value = input[2]
    /\ globalOptions \in GlobalOptionSets
    /\ pc = "start"
    /\ result = NoResult
    /\ evalLog = <<>>
    /\ valueCalls = <<>>
    /\ described = NoDefinition
    /\ errorPathList = NoPathList
    /\ extracted = NoExtraction
    /\ built = NoBuild
    /\ calls = <<>>

\* result = verify(spec, value, globalOptions)
Verify ==
    /\ pc = "start"
    /\ result' = verify(spec, value, globalOptions)
    /\ evalLog' = verifyLog(spec, value, globalOptions)
    /\ pc' = IF result'.threw THEN "threw" ELSE "verified"
    /\ UNCHANGED <<spec, value, globalOptions, valueCalls, described, errorPathList, extracted, built, calls>>

\* result.value()
CallValue ==
    /\ pc = "verified"
    /\ Len(valueCalls) < MaxValueCalls
    /\ valueCalls' = Append(valueCalls, valueOf(result))
    /\ UNCHANGED <<spec, value, globalOptions, pc, result, evalLog, described,
                   errorPathList, extracted, built, calls>>

\* described = definitionOf(spec)
DefinitionOf ==
    /\ pc = "start"
    /\ described' = definitionOf(spec)
    /\ pc' = "described"
    /\ UNCHANGED <<spec, value, globalOptions, result, evalLog, valueCalls,
                   errorPathList, extracted, built, calls>>

\* errorPathList = FormatValidationFailure.generateErrorPathList(err, { include }),
\* err being result.err or an error that result.value() has thrown
GenerateErrorPathList ==
    /\ pc = "verified"
    /\ result.hasErr
    /\ \E err \in {result.err} \cup {valueCalls[i].error : i \in DOMAIN valueCalls},
          include \in IncludeSets :
            errorPathList' = [err |-> err, include |-> include,
                              list |-> generateErrorPathList(err, include)]
    /\ pc' = "listed"
    /\ UNCHANGED <<spec, value, globalOptions, result, evalLog, valueCalls, described,
                   extracted, built, calls>>

\* extracted = extractAliases(described)
ExtractAliases ==
    /\ pc = "described"
    /\ ~described.threw
    /\ extracted' = extractAliases(described.definition)
    /\ pc' = "extracted"
    /\ UNCHANGED <<spec, value, globalOptions, result, evalLog, valueCalls, described,
                   errorPathList, built, calls>>

\* built = alias(name, spec), constrain(spec, constraints), optional(spec),
\* adjust(spec, options) or either(..., spec, ...)
Build ==
    /\ pc = "start"
    /\ \E c \in Calls(spec) : built' = [call |-> c, outcome |-> Call(c)]
    /\ pc' = "built"
    /\ UNCHANGED <<spec, value, globalOptions, result, evalLog, valueCalls, described,
                   errorPathList, extracted, calls>>

Next ==
    \/ Verify
    \/ CallValue
    \/ DefinitionOf
    \/ GenerateErrorPathList
    \/ ExtractAliases
    \/ Build

Spec == Init /\ [][Next]_vars

(***************************************************************************)
(* Several verifications of one spec at a time.  The spec is an array      *)
(* type, adjusted or not; a call goes through the evaluation of Type.array *)
(* one loop iteration at a time and the iterations of the calls are        *)
(* interleaved at will.  A call has its arguments, its settings and its    *)
(* accumulators; args is what the caller gave, kept for comparison, and    *)
(* overlapped tells whether the call took a step while another call was    *)
(* in its loop.                                                            *)
(***************************************************************************)
Callers == {1, 2}
SharedSpecs ==
    Adjusted({TypeArray(TypeNumber), TypeArray(erroring)},
             {[failEarly |-> TRUE], [skipInvalid |-> TRUE]})
SharedValues == {Arr(q) : q \in SeqsUpTo({Num(1), Str("x")}, MaxLen)} \cup {Num(1)}

NewCall(s, v, g) ==
    [args |-> [spec |-> s, value |-> v, globalOptions |-> g],
     value |-> v, globalOptions |-> g, pc |-> "idle",
     options |-> RootOptions(NoOptions), settings |-> NoOptions,
     i |-> 0, values |-> <<>>, nestedErrors |-> <<>>,
     result |-> NoResult, overlapped |-> FALSE]

\* Mutant of CallOptions: the options of the first call are kept for the others.
CallOptionsOfFirst(cs, c) == RootOptions(cs[1].globalOptions)

\* verify: the options that call c evaluates the spec with.
CallOptions(cs, c) == RootOptions(cs[c].globalOptions)

\* The options that reach the array type, through adjust when there is one.
ArrayOptions(s, options) ==
    IF s.eval.op = "adjust" THEN AdjustedOptions(s.eval.adjustedOptions, options) ELSE options
ArrayOf(s) == IF s.eval.op = "adjust" THEN s.eval.specs[1] ELSE s
Overlapping(c) == \E d \in Callers \ {c} : calls[d].pc = "loop"

InitCalls ==
    /\ spec \in SharedSpecs
    /\ calls \in [Callers -> {NewCall(spec, v, g) : v \in SharedValues, g \in GlobalOptionSets}]
    /\ value = Undefined
    /\ globalOptions = NoOptions
    /\ pc = "calls"
    /\ result = NoResult
    /\ evalLog = <<>>
    /\ valueCalls = <<>>
    /\ described = NoDefinition
    /\ errorPathList = NoPathList
    /\ extracted = NoExtraction
    /\ built = NoBuild

\* Call c enters the evaluation: its settings and its empty accumulators.
Enter(c) ==
    /\ calls[c].pc = "idle"
    /\ LET options == ArrayOptions(spec, CallOptions(calls, c))
           data == calls[c].value
       IN  calls' = [calls EXCEPT ![c] =
              IF data.t # "array"
              THEN [@ EXCEPT !.pc = "done",
                             !.result = [NoResult EXCEPT
                                 !.hasErr = TRUE,
                                 !.err = Leaf("type.array.not_an_array", data, "Not an array.")]]
              ELSE [@ EXCEPT !.pc = "loop", !.options = options,
                             !.settings = ArraySettings(options),
                             !.i = 0, !.values = <<>>, !.nestedErrors = <<>>]]
    /\ UNCHANGED <<spec, value, globalOptions, pc, result, evalLog, valueCalls, described,
                   errorPathList, extracted, built>>

\* One iteration of the loop of call c.
Iterate(c) ==
    /\ calls[c].pc = "loop"
    /\ calls[c].i < Len(calls[c].value.items)
    /\ LoopContinues(calls[c].settings, calls[c].nestedErrors)
    /\ LET f == calls[c]
           element == f.value.items[f.i + 1]
           r == Eval(ArrayOf(spec).eval.specs[1].eval, element, NestedOptions(f.options))
           g == [f EXCEPT !.overlapped = @ \/ Overlapping(c)]
       IN  calls' = [calls EXCEPT ![c] =
              IF r.threw
              THEN [g EXCEPT !.pc = "done",
                             !.result = [NoResult EXCEPT !.threw = TRUE, !.exc = r.exc]]
              ELSE IF r.res.ok
              THEN [g EXCEPT !.i = @ + 1, !.values = Append(@, r.res.value)]
              ELSE IF ~f.settings.skipInvalid
              THEN [g EXCEPT !.i = @ + 1,
                             !.nestedErrors =
                                 Append(@, ArrayInvalidElement(f.i, element, r.res.err))]
              ELSE [g EXCEPT !.i = @ + 1]]
    /\ UNCHANGED <<spec, value, globalOptions, pc, result, evalLog, valueCalls, described,
                   errorPathList, extracted, built>>

\* Call c leaves the loop and returns.
Leave(c) ==
    /\ calls[c].pc = "loop"
    /\ ~(/\ calls[c].i < Len(calls[c].value.items)
         /\ LoopContinues(calls[c].settings, calls[c].nestedErrors))
    /\ calls' = [calls EXCEPT ![c] =
          [@ EXCEPT !.pc = "done",
                    !.overlapped = @ \/ Overlapping(c),
                    !.result =
                        IF Len(calls[c].nestedErrors) > 0
                        THEN [NoResult EXCEPT
                                !.hasErr = TRUE,
                                !.err = ArrayInvalidElements(calls[c].value,
                                                             calls[c].nestedErrors)]
                        ELSE [NoResult EXCEPT !.value = Arr(calls[c].values)]]]
    /\ UNCHANGED <<spec, value, globalOptions, pc, result, evalLog, valueCalls, described,
                   errorPathList, extracted, built>>

NextCalls == \E c \in Callers : Enter(c) \/ Iterate(c) \/ Leave(c)

SpecCalls == InitCalls /\ [][NextCalls]_vars

(***************************************************************************)
(* Transformations: a second reading of the state, where value is a        *)
(* string given to a transformation function and result is what the        *)
(* function gives back.                                                    *)
(***************************************************************************)
\* A string, as the form it is written in and the numbers it is written with:
\* "full" is YYYY-MM-DDTHH:mm:ss.sssZ, "seconds" is YYYY-MM-DDTHH:mm:ssZ, "date"
\* is YYYY-MM-DD, "offset" is YYYY-MM-DDTHH:mm:ss.sss+01:00; "text" is a string
\* that is no date.
DateString(form, year, month, day, hours, minutes, seconds, ms) ==
    [form |-> form, year |-> year, month |-> month, day |-> day,
     hours |-> hours, minutes |-> minutes, seconds |-> seconds, ms |-> ms]
Text == DateString("text", 0, 0, 0, 0, 0, 0, 0)

\* The time value of a Date: NaN, or the day since the epoch and the
\* milliseconds within the day.
MsPerHour == 60 * 60 * 1000
MsPerDay == 24 * MsPerHour
NaN == [nan |-> TRUE, day |-> 0, ms |-> 0]
TimeValue(day, ms) == [nan |-> FALSE, day |-> day, ms |-> ms]

IsLeapYear(year) == year % 4 = 0 /\ (year % 100 # 0 \/ year % 400 = 0)
DaysInMonth(year, month) ==
    IF month = 2 THEN (IF IsLeapYear(year) THEN 29 ELSE 28)
    ELSE IF month \in {4, 6, 9, 11} THEN 30 ELSE 31

\* The day since the epoch of a date of the calendar, and back.
MakeDay(year, month, day) ==
    LET y == IF month <= 2 THEN year - 1 ELSE year
        era == y \div 400
        yoe == y - era * 400
        doy == (153 * (IF month > 2 THEN month - 3 ELSE month + 9) + 2) \div 5 + day - 1
        doe == yoe * 365 + yoe \div 4 - yoe \div 100 + doy
    IN  era * 146097 + doe - 719468
DateFromDay(z) ==
    LET shifted == z + 719468
        era == shifted \div 146097
        doe == shifted - era * 146097
        yoe == (doe - doe \div 1460 + doe \div 36524 - doe \div 146096) \div 365
        doy == doe - (365 * yoe + yoe \div 4 - yoe \div 100)
        mp == (5 * doy + 2) \div 153
        month == IF mp < 10 THEN mp + 3 ELSE mp - 9
    IN  [year |-> IF month <= 2 THEN yoe + era * 400 + 1 ELSE yoe + era * 400,
         month |-> month,
         day |-> doy - (153 * mp + 2) \div 5 + 1]

\* The numbers of a date-time string that the date-time format allows.
LegalElements(str) ==
    /\ str.month \in 1..12
    /\ str.day \in 1..DaysInMonth(str.year, str.month)
    /\ \/ str.hours \in 0..23
       \/ str.hours = 24 /\ str.minutes = 0 /\ str.seconds = 0 /\ str.ms = 0
    /\ str.minutes \in 0..59
    /\ str.seconds \in 0..59

\* new Date(value): the time value of the string, as UTC; the offset form is
\* one hour ahead of UTC.
DateParse(str) ==
    IF str.form = "text" \/ ~LegalElements(str) THEN NaN
    ELSE LET time == ((str.hours * 60 + str.minutes) * 60 + str.seconds) * 1000 + str.ms
                     - (IF str.form = "offset" THEN MsPerHour ELSE 0)
             day == MakeDay(str.year, str.month, str.day)
         IN  IF time < 0 THEN TimeValue(day - 1, time + MsPerDay)
             ELSE IF time >= MsPerDay THEN TimeValue(day + 1, time - MsPerDay)
             ELSE TimeValue(day, time)

\* date.toISOString(): the full form of the time value, or a RangeError.
NoString == [threw |-> FALSE, exc |-> "", str |-> Text]
toISOString(date) ==
    IF date.nan
    THEN [NoString EXCEPT !.threw = TRUE, !.exc = "RangeError: Invalid time value"]
    ELSE LET d == DateFromDay(date.day)
         IN  [NoString EXCEPT !.str =
                 DateString("full", d.year, d.month, d.day,
                            date.ms \div MsPerHour,
                            (date.ms \div (60 * 1000)) % 60,
                            (date.ms \div 1000) % 60,
                            date.ms % 1000)]

\* What a transformation function gives back: an exception, a Date, or an
\* object with the properties named in keys.
NoTransformFailure == [code |-> "", value |-> Text, message |-> "", allowed |-> ""]
NoTransformed ==
    [threw |-> FALSE, exc |-> "", isDate |-> FALSE, date |-> NaN, keys |-> {},
     errIsNull |-> FALSE, err |-> NoTransformFailure, value |-> NaN]
TransformThrew(exc) == [NoTransformed EXCEPT !.threw = TRUE, !.exc = exc]
TransformedDate(date) == [NoTransformed EXCEPT !.isDate = TRUE, !.date = date]
TransformErr(failure) == [NoTransformed EXCEPT !.keys = {"err"}, !.err = failure]
TransformOk(v) ==
    [NoTransformed EXCEPT !.keys = {"err", "value"}, !.errIsNull = TRUE, !.value = v]

\* Transformation.instantiateWithSingleArg(Date)(value)
instantiateWithSingleArg(str) == TransformOk(DateParse(str))

\* Transformation.isoDateTimeUtc(value)
isoDateTimeUtc(str) ==
    LET date == DateParse(str)
        iso == toISOString(date)
    IN  IF iso.threw THEN TransformThrew(iso.exc)
        ELSE IF iso.str # str
             THEN TransformErr([code |-> "transform.isoDateTime",
                                value |-> str,
                                message |-> "Not a valid ISO UTC date-time string.",
                                allowed |-> "YYYY-MM-DDThh::mm::ss.uuuZ"])
             ELSE TransformedDate(date)

\* Strings: date-times in every form, with numbers in and out of range.
Written ==
    {DateString(form, year, month, day, hours, 0, seconds, ms) :
        form \in {"full", "seconds", "date", "offset"},
        year \in {1970, 2020}, month \in {1, 2, 12, 13}, day \in {0, 1, 28, 32},
        hours \in {0, 23, 25}, seconds \in {0, 59}, ms \in {0, 999}}
DateStrings ==
    {Text}
    \cup {str \in Written :
            /\ str.form = "seconds" => str.ms = 0
            /\ str.form = "date" => str.hours = 0 /\ str.seconds = 0 /\ str.ms = 0}

InitTransform ==
    /\ value \in DateStrings
    /\ spec = TypeString
    /\ globalOptions = NoOptions
    /\ pc = "string"
    /\ result = NoTransformed
    /\ evalLog = <<>>
    /\ valueCalls = <<>>
    /\ described = NoDefinition
    /\ errorPathList = NoPathList
    /\ extracted = NoExtraction
    /\ built = NoBuild
    /\ calls = <<>>

\* result = Transformation.isoDateTimeUtc(value)
IsoDateTimeUtc ==
    /\ pc = "string"
    /\ result' = isoDateTimeUtc(value)
    /\ pc' = "transformed"
    /\ UNCHANGED <<spec, value, globalOptions, evalLog, valueCalls, described,
                   errorPathList, extracted, built, calls>>

\* result = Transformation.instantiateWithSingleArg(Date)(value)
InstantiateWithSingleArg ==
    /\ pc = "string"
    /\ result' = instantiateWithSingleArg(value)
    /\ pc' = "instantiated"
    /\ UNCHANGED <<spec, value, globalOptions, evalLog, valueCalls, described,
                   errorPathList, extracted, built, calls>>

NextTransform == IsoDateTimeUtc \/ InstantiateWithSingleArg

SpecTransform == InitTransform /\ [][NextTransform]_vars

(***************************************************************************)
(* Properties.                                                             *)
(***************************************************************************)
ContainerOps == {"Type.array", "Type.tuple", "Type.object", "Type.map"}
IsAdjusted(s) == s.eval.op = "adjust"
Base(s) == IF IsAdjusted(s) THEN s.eval.specs[1] ELSE s
LocalOptions(s) == IF IsAdjusted(s) THEN s.eval.adjustedOptions ELSE NoOptions
SetsLocally(s, option) == option \in DOMAIN LocalOptions(s)
IsContainer(s) == Base(s).eval.op \in ContainerOps
Aggregated(r) == ~r.threw /\ r.hasErr /\ r.err.hasNested
Names(log) == [i \in DOMAIN log |-> log[i].name]

\* C1: a verify result has exactly one failure channel: either err is null and
\* every call of value() returns the same success value without throwing, or err
\* is a failure and every call of value() throws an error with the code of err.
C1_ExactlyOneFailureChannel ==
    pc = "verified" =>
        \/ /\ ~result.hasErr
           /\ \A i \in DOMAIN valueCalls :
                ~valueCalls[i].threw /\ valueCalls[i].value = result.value
        \/ /\ result.hasErr
           /\ \A i \in DOMAIN valueCalls :
                valueCalls[i].threw /\ valueCalls[i].error.code = result.err.code

C1_Witness ==
    /\ pc = "verified" /\ result.hasErr /\ result.err.hasNested
    /\ Len(valueCalls) = MaxValueCalls

\* C2: verify throws exactly when a user-supplied check threw an exception that is
\* no validation failure (or the spec version is unknown): the exception leaves
\* verify unchanged from any depth, and every validation failure is returned as
\* data in err.
ErrorConstraintCalled == \E i \in DOMAIN evalLog : evalLog[i].name = "error-constraint"
C2_OnlyForeignExceptionsPropagate ==
    pc \in {"verified", "threw"} =>
        /\ ErrorConstraintCalled =>
             /\ pc = "threw" /\ result.threw /\ result.exc = errorMessage
             /\ ~result.hasErr
             /\ evalLog[Len(evalLog)].name = "error-constraint"
        /\ (~ErrorConstraintCalled /\ spec.version = 1) => (pc = "verified" /\ ~result.threw)

C2_Witness ==
    /\ pc = "threw" /\ result.exc = errorMessage
    /\ spec.eval.op = "Type.map" /\ Len(evalLog) >= 4

\* C3 (as amended): when at least one element fails, a container that fails early
\* reports exactly one nested error, which has the key, code and value of the first
\* nested error of the exhaustive evaluation of the same input; it equals that
\* first nested error when failEarly is the container's local option.
ExhaustiveGlobally == verify(spec, value, [failEarly |-> FALSE])
ExhaustiveLocally ==
    verify(adjust(Base(spec), [failEarly |-> FALSE]), value, globalOptions)
SameElement(f, g) == f.key = g.key /\ f.code = g.code /\ f.value = g.value
C3_FailEarlyKeepsFirstFailure ==
    (pc = "verified" /\ IsContainer(spec)) =>
        /\ ( /\ ~SetsLocally(spec, "failEarly")
             /\ globalOptions = [failEarly |-> TRUE]
             /\ Aggregated(ExhaustiveGlobally) ) =>
               /\ Aggregated(result)
               /\ Len(result.err.nestedErrors) = 1
               /\ SameElement(result.err.nestedErrors[1],
                              ExhaustiveGlobally.err.nestedErrors[1])
        /\ ( /\ LocalOptions(spec) = [failEarly |-> TRUE]
             /\ Aggregated(ExhaustiveLocally) ) =>
               /\ Aggregated(result)
               /\ result.err.nestedErrors = <<ExhaustiveLocally.err.nestedErrors[1]>>

C3_Witness ==
    /\ pc = "verified" /\ Base(spec).eval.op = "Type.map"
    /\ LocalOptions(spec) = [failEarly |-> TRUE]
    /\ Aggregated(ExhaustiveLocally) /\ Len(ExhaustiveLocally.err.nestedErrors) >= 2
    /\ Len(result.err.nestedErrors) = 1

\* C3 as stated: the one nested error under failEarly=true equals the first nested
\* error under failEarly=false.
C3_AsStated ==
    ( /\ pc = "verified" /\ IsContainer(spec)
      /\ ~SetsLocally(spec, "failEarly")
      /\ globalOptions = [failEarly |-> TRUE]
      /\ Aggregated(ExhaustiveGlobally) ) =>
        /\ Aggregated(result)
        /\ result.err.nestedErrors = <<ExhaustiveGlobally.err.nestedErrors[1]>>


\* C4: the failEarly setting in effect for a container is the local option when
\* adjust set one, else the global option when verify was given one, else false:
\* the container reports the first failing element alone when it is true, and
\* every failing element when it is false.
EffectiveFailEarly ==
    IF SetsLocally(spec, "failEarly") THEN LocalOptions(spec).failEarly
    ELSE IF "failEarly" \in DOMAIN globalOptions THEN globalOptions.failEarly
    ELSE FALSE
ExhaustiveReference ==
    verify(adjust(Base(spec), Merge(LocalOptions(spec), [failEarly |-> FALSE])),
           value, NoOptions)
ElementKeys(f) == [i \in DOMAIN f.nestedErrors |-> f.nestedErrors[i].key]
C4_LocalThenGlobalThenFalse ==
    (pc = "verified" /\ IsContainer(spec) /\ Aggregated(ExhaustiveReference)) =>
        /\ Aggregated(result)
        /\ ElementKeys(result.err) =
             IF EffectiveFailEarly
             THEN <<ElementKeys(ExhaustiveReference.err)[1]>>
             ELSE ElementKeys(ExhaustiveReference.err)

C4_Witness ==
    /\ pc = "verified" /\ Base(spec).eval.op = "Type.object"
    /\ LocalOptions(spec) = [failEarly |-> TRUE]
    /\ globalOptions = [failEarly |-> FALSE]
    /\ Aggregated(ExhaustiveReference)
    /\ Len(ExhaustiveReference.err.nestedErrors) >= 2
    /\ Len(result.err.nestedErrors) = 1

\* C5: a nested spec is evaluated with the global options alone; the local options
\* of the enclosing spec never reach it.  Every failure that a container or either
\* reports for an element is the failure that verifying the element's spec on the
\* element with the same global options returns.
NestedSpecOf(s, f) ==
    CASE s.eval.op = "Type.array" -> s.eval.specs[1]
      [] s.eval.op = "Type.tuple" -> s.eval.specs[f.key.n + 1]
      [] s.eval.op = "Type.object" ->
            s.eval.specs[CHOOSE i \in DOMAIN s.eval.attrs : s.eval.attrs[i] = f.key.s]
      [] s.eval.op = "Type.map" ->
            IF f.code = "type.map.invalid_key" THEN s.eval.specs[1] ELSE s.eval.specs[2]
IsWrapper(f) == f.hasNested /\ f.key # Undefined
C5_LocalOptionsAreNotInherited ==
    (pc = "verified" /\ Aggregated(result)) =>
        /\ IsContainer(spec) =>
             \A i \in DOMAIN result.err.nestedErrors :
                LET f == result.err.nestedErrors[i]
                IN  IsWrapper(f) =>
                      f.nestedErrors =
                        <<verify(NestedSpecOf(Base(spec), f), f.value, globalOptions).err>>
        /\ Base(spec).eval.op = "either" =>
             \A i \in DOMAIN result.err.nestedErrors :
                result.err.nestedErrors[i] =
                    verify(Base(spec).eval.specs[i], value, globalOptions).err

C5_Witness ==
    /\ pc = "verified"
    /\ spec = adjust(TypeArray(numbers), [failEarly |-> TRUE])
    /\ globalOptions = NoOptions
    /\ Aggregated(result)
    /\ Len(result.err.nestedErrors) = 1
    /\ Len(result.err.nestedErrors[1].nestedErrors[1].nestedErrors) = 2
    /\ Len(value.items) = 2 /\ value.items[2] = Str("x")

\* C6: either evaluates its alternatives in declaration order and stops at the
\* first that succeeds, whose result it returns as it is; when every alternative
\* fails it returns either.no_matching_spec with the failures of all alternatives
\* in declaration order, whatever failEarly is.
RECURSIVE AlternativeLogs(_, _)
AlternativeLogs(specs, k) ==
    IF k = 0 THEN <<>>
    ELSE AlternativeLogs(specs, k - 1) \o verifyLog(specs[k], value, globalOptions)
AlternativeResult(i) == verify(Base(spec).eval.specs[i], value, globalOptions)
Decisive == {i \in DOMAIN Base(spec).eval.specs : ~AlternativeResult(i).hasErr}
FirstDecisive == CHOOSE i \in Decisive : \A j \in Decisive : i <= j
C6_FirstMatchElseAllFailures ==
    (pc \in {"verified", "threw"} /\ Base(spec).eval.op = "either") =>
        LET specs == Base(spec).eval.specs
        IN  IF Decisive # {}
            THEN /\ evalLog = AlternativeLogs(specs, FirstDecisive)
                 /\ result = AlternativeResult(FirstDecisive)
            ELSE /\ evalLog = AlternativeLogs(specs, Len(specs))
                 /\ pc = "verified" /\ result.hasErr
                 /\ result.err.code = "either.no_matching_spec"
                 /\ result.err.value = value
                 /\ result.err.nestedErrors =
                        [i \in DOMAIN specs |-> AlternativeResult(i).err]

C6_Witness ==
    /\ pc = "verified" /\ spec.eval.op = "either"
    /\ globalOptions = [failEarly |-> TRUE]
    /\ result.hasErr /\ Len(result.err.nestedErrors) = MaxAlternatives

\* C7: constrain evaluates the wrapped spec first and returns its failure as it is;
\* on success it checks the constraints in order on the success value, stops at the
\* first that fails and returns that failure unwrapped; when all pass it returns the
\* success of the wrapped spec.
ConstrainedResult == verify(spec.eval.specs[1], value, globalOptions)
ConstrainedLog == verifyLog(spec.eval.specs[1], value, globalOptions)
Check(i) == ConstraintEval(spec.eval.constraints[i], ConstrainedResult.value)
CheckCalls(k) ==
    [i \in 1..k |-> Called("constraint", spec.eval.constraints[i].name,
                           spec.eval.constraints[i].limit, ConstrainedResult.value)]
Stopping == {i \in DOMAIN spec.eval.constraints : Check(i).threw \/ Check(i).hasErr}
FirstStopping == CHOOSE i \in Stopping : \A j \in Stopping : i <= j
SpecAndConstraintCalls(log) == SelectSeq(log, LAMBDA called : called.kind # "equalsFunc")
C7_ConstraintsInOrderShortCircuit ==
    (pc \in {"verified", "threw"} /\ spec.eval.op = "constrain") =>
        IF ConstrainedResult.hasErr
        THEN result = ConstrainedResult /\ SpecAndConstraintCalls(evalLog) = ConstrainedLog
        ELSE IF Stopping = {}
        THEN /\ result = ConstrainedResult
             /\ SpecAndConstraintCalls(evalLog) = ConstrainedLog \o CheckCalls(Len(spec.eval.constraints))
        ELSE /\ SpecAndConstraintCalls(evalLog) = ConstrainedLog \o CheckCalls(FirstStopping)
             /\ IF Check(FirstStopping).threw
                THEN result.threw /\ result.exc = Check(FirstStopping).exc
                ELSE /\ ~result.threw /\ result.hasErr
                     /\ result.err = Check(FirstStopping).err

C7_Witness ==
    /\ pc = "verified" /\ spec.eval.op = "constrain"
    /\ Len(spec.eval.constraints) = 2
    /\ spec.eval.constraints[2] = errorConstraint
    /\ ~ConstrainedResult.hasErr
    /\ result.hasErr /\ result.err.code = "constraint.number.above"
    /\ ~result.err.hasNested

\* C8: a strict object that does not fail early reports one extra_attribute per
\* input key that is not in the schema, in input order, and after them one
\* missing_attribute or invalid_attribute per failing schema attribute, in schema
\* order, each with the attribute name as key.
Indices(q) == [i \in DOMAIN q |-> i]
IsStrict(s) == Base(s).eval.op = "Type.object" /\ Base(s).eval.strict /\ ~SetsLocally(s, "strict")
InSchema(k) == \E i \in DOMAIN Base(spec).eval.attrs : Base(spec).eval.attrs[i] = k
InInput(k) == \E i \in DOMAIN value.keys : value.keys[i] = k
InputOf(k) == value.items[CHOOSE i \in DOMAIN value.keys : value.keys[i] = k]
AttributeResult(i) ==
    verify(Base(spec).eval.specs[i], InputOf(Base(spec).eval.attrs[i]), globalOptions)
IsMissing(i) ==
    /\ ~InInput(Base(spec).eval.attrs[i])
    /\ ~Base(spec).eval.specs[i].optional
    /\ ~Base(spec).eval.specs[i].hasDefault
IsInvalid(i) == InInput(Base(spec).eval.attrs[i]) /\ AttributeResult(i).hasErr
ExtraKeys == SelectSeq(value.keys, LAMBDA k : ~InSchema(k))
FailingAttributes ==
    SelectSeq(Indices(Base(spec).eval.attrs), LAMBDA i : IsMissing(i) \/ IsInvalid(i))
ExpectedReports ==
    [i \in DOMAIN ExtraKeys |-> <<"type.object.extra_attribute", Str(ExtraKeys[i])>>]
    \o [j \in DOMAIN FailingAttributes |->
          <<IF IsMissing(FailingAttributes[j])
            THEN "type.object.missing_attribute"
            ELSE "type.object.invalid_attribute",
            Str(Base(spec).eval.attrs[FailingAttributes[j]])>>]
Reports(f) == [i \in DOMAIN f.nestedErrors |-> <<f.nestedErrors[i].code, f.nestedErrors[i].key>>]
Holds(out, k, v) == \E j \in DOMAIN out.keys : out.keys[j] = k /\ out.items[j] = v
RECURSIVE Flatten(_)
Flatten(logs) == IF logs = <<>> THEN <<>> ELSE Head(logs) \o Flatten(Tail(logs))
Option(s, option) == SetsLocally(s, option) /\ LocalOptions(s)[option]
ElementResult(i) == verify(Base(spec).eval.specs[1], value.items[i], globalOptions)
ValidElements == SelectSeq(Indices(value.items), LAMBDA i : ~ElementResult(i).hasErr)
KeyResult(i) == verify(Base(spec).eval.specs[1], Str(value.keys[i]), globalOptions)
ValueResult(i) == verify(Base(spec).eval.specs[2], value.items[i], globalOptions)
EntryLog(i) ==
    verifyLog(Base(spec).eval.specs[1], Str(value.keys[i]), globalOptions)
    \o IF KeyResult(i).hasErr THEN <<>>
       ELSE verifyLog(Base(spec).eval.specs[2], value.items[i], globalOptions)
EntryReport(i) ==
    IF KeyResult(i).hasErr THEN <<"type.map.invalid_key", Str(value.keys[i])>>
    ELSE IF ValueResult(i).hasErr THEN <<"type.map.invalid_value", Str(value.keys[i])>>
    ELSE <<"", Undefined>>
Reported(skipKeys, skipValues) ==
    SelectSeq(Indices(value.keys),
              LAMBDA i : \/ KeyResult(i).hasErr /\ ~skipKeys
                         \/ ~KeyResult(i).hasErr /\ ValueResult(i).hasErr /\ ~skipValues)
ValidEntries ==
    SelectSeq(Indices(value.keys),
              LAMBDA i : ~KeyResult(i).hasErr /\ ~ValueResult(i).hasErr)
MapOutcomeIs(skipKeys, skipValues) ==
    LET reported == Reported(skipKeys, skipValues)
    IN  /\ evalLog = Flatten([i \in DOMAIN value.keys |-> EntryLog(i)])
        /\ IF reported = <<>>
           THEN /\ ~result.hasErr
                /\ result.value =
                     Obj([j \in DOMAIN ValidEntries |-> KeyResult(ValidEntries[j]).value.s],
                         [j \in DOMAIN ValidEntries |-> ValueResult(ValidEntries[j]).value])
           ELSE /\ result.hasErr /\ result.err.code = "type.map.invalid_data"
                /\ Reports(result.err) = [j \in DOMAIN reported |-> EntryReport(reported[j])]
C11_SkippedElementsAreDropped ==
    /\ ( /\ pc = "verified" /\ Base(spec).eval.op = "Type.array"
         /\ Option(spec, "skipInvalid") /\ value.t = "array" ) =>
           /\ ~result.hasErr
           /\ result.value =
                Arr([j \in DOMAIN ValidElements |-> ElementResult(ValidElements[j]).value])
    /\ ( /\ pc = "verified" /\ Base(spec).eval.op = "Type.map" /\ value.t = "object"
         /\ ~EffectiveFailEarly
         /\ (Option(spec, "skipInvalidKeys") \/ Option(spec, "skipInvalidValues")) ) =>
           MapOutcomeIs(Option(spec, "skipInvalidKeys"), Option(spec, "skipInvalidValues"))
    /\ ( /\ pc = "verified" /\ Base(spec).eval.op = "Type.map" /\ Aggregated(result) ) =>
           \A i \in DOMAIN result.err.nestedErrors :
              /\ Option(spec, "skipInvalidKeys") =>
                   result.err.nestedErrors[i].code # "type.map.invalid_key"
              /\ Option(spec, "skipInvalidValues") =>
                   result.err.nestedErrors[i].code # "type.map.invalid_value"

C11_Witness ==
    /\ pc = "verified" /\ spec = adjust(TypeArray(positive), [skipInvalid |-> TRUE])
    /\ globalOptions = [failEarly |-> TRUE]
    /\ value = Arr(<<Num(0), Num(1)>>)
    /\ result.value = Arr(<<Num(1)>>)

\* C12: a map that is evaluated exhaustively without skip options turns every input
\* key into exactly one of an output entry, a type.map.invalid_key nested error (the
\* value is then not evaluated) or a type.map.invalid_value nested error, each keyed
\* by the input key, the nested errors in the order of the input keys.
C12_MapReportsEveryFailingEntry ==
    ( /\ pc = "verified" /\ Base(spec).eval.op = "Type.map" /\ value.t = "object"
      /\ ~EffectiveFailEarly
      /\ ~Option(spec, "skipInvalidKeys") /\ ~Option(spec, "skipInvalidValues") ) =>
        MapOutcomeIs(FALSE, FALSE)

C12_Witness ==
    /\ pc = "verified" /\ spec = TypeMap(keyOfAB, TypeNumber)
    /\ value = Obj(<<"c", "a">>, <<Num(1), Str("x")>>)
    /\ Reports(result.err) = << <<"type.map.invalid_key", Str("c")>>,
                                <<"type.map.invalid_value", Str("a")>> >>
    /\ Names(evalLog) = <<"Type.string", "oneOf", "Type.string", "oneOf", "Type.number">>


\* C13 (as amended): Type.interface(schema) and adjust(Type.object(schema),
\* {strict: false}) give the same outcome for every schema, input and global
\* options: both succeed with equal output, or both fail with failures that are
\* equal but for the codes of the type itself, which start with type.interface in
\* the one and with type.object in the other.
IsInterface(s) == Base(s).eval.op = "Type.object" /\ Base(s).eval.typeName = "interface"
NonStrictObject ==
    adjust(TypeObject(Base(spec).eval.attrs, Base(spec).eval.specs), [strict |-> FALSE])
ObjectCounterpart ==
    verify(IF IsAdjusted(spec) THEN adjust(NonStrictObject, LocalOptions(spec))
           ELSE NonStrictObject,
           value, globalOptions)
AsObjectCode(code) ==
    CASE code = "type.interface.not_a_regular_object" -> "type.object.not_a_regular_object"
      [] code = "type.interface.extra_attribute" -> "type.object.extra_attribute"
      [] code = "type.interface.missing_attribute" -> "type.object.missing_attribute"
      [] code = "type.interface.invalid_attribute" -> "type.object.invalid_attribute"
      [] code = "type.interface.invalid_attribute_data" -> "type.object.invalid_attribute_data"
      [] OTHER -> code
WithObjectCodes(f) ==
    [f EXCEPT !.code = AsObjectCode(f.code),
              !.nestedErrors = [i \in DOMAIN f.nestedErrors |->
                                  [f.nestedErrors[i] EXCEPT
                                      !.code = AsObjectCode(f.nestedErrors[i].code)]]]
PositionResult(i) == verify(Base(spec).eval.specs[i], value.items[i], globalOptions)
FailingPositions ==
    SelectSeq(Indices(Base(spec).eval.specs), LAMBDA i : PositionResult(i).hasErr)
IsLeaf(r, code) ==
    /\ ~r.threw /\ r.hasErr /\ r.err.code = code /\ r.err.value = value
    /\ ~r.err.hasNested /\ r.err.nestedErrors = <<>>
C14_TupleShapeThenPositions ==
    (pc \in {"verified", "threw"} /\ Base(spec).eval.op = "Type.tuple") =>
        IF value.t # "array"
        THEN IsLeaf(result, "type.tuple.not_a_tuple") /\ evalLog = <<>>
        ELSE IF Len(value.items) # Len(Base(spec).eval.specs)
        THEN IsLeaf(result, "type.tuple.incorrect_length") /\ evalLog = <<>>
        ELSE (pc = "verified" /\ ~EffectiveFailEarly) =>
               IF FailingPositions = <<>>
               THEN /\ ~result.hasErr
                    /\ result.value = Arr([i \in DOMAIN value.items |-> PositionResult(i).value])
               ELSE /\ result.hasErr /\ result.err.code = "type.tuple.invalid_elements"
                    /\ Reports(result.err) =
                         [j \in DOMAIN FailingPositions |->
                            <<"type.tuple.invalid_element", Num(FailingPositions[j] - 1)>>]
                    /\ \A j \in DOMAIN FailingPositions :
                         result.err.nestedErrors[j].nestedErrors =
                             <<PositionResult(FailingPositions[j]).err>>

C14_Witness ==
    /\ pc = "verified" /\ spec = TypeTuple(<<erroring>>)
    /\ value = Arr(<<Num(1), Num(1)>>)
    /\ result.err.code = "type.tuple.incorrect_length"
    /\ evalLog = <<>>


\* C15: adjust(spec, o) evaluates spec with the local options o overlaid by the
\* local options of the caller, and with the caller's global options; so
\* adjust(adjust(spec, o1), o2) evaluates spec with o1 overlaid by o2.
Outcome(r) ==
    IF r.threw THEN [NoResult EXCEPT !.threw = TRUE, !.exc = r.exc]
    ELSE IF ~r.res.ok THEN [NoResult EXCEPT !.hasErr = TRUE, !.err = r.res.err]
    ELSE [NoResult EXCEPT !.value = r.res.value]
Overlaid(o, local) == [k \in DOMAIN o \cup DOMAIN local |-> IF k \in DOMAIN local THEN local[k] ELSE o[k]]
AdjustedTwiceOver(s) == IsAdjusted(s) /\ IsAdjusted(s.eval.specs[1])
C15_AdjustSuppliesDefaults ==
    (pc \in {"verified", "threw"} /\ IsAdjusted(spec)) =>
        LET wrapped == spec.eval.specs[1]
        IN  IF IsAdjusted(wrapped)
            THEN result =
                   Outcome(Eval(wrapped.eval.specs[1].eval, value,
                                [local |-> Overlaid(wrapped.eval.adjustedOptions,
                                                    spec.eval.adjustedOptions),
                                 global |-> globalOptions]))
            ELSE result =
                   Outcome(Eval(wrapped.eval, value,
                                [local |-> spec.eval.adjustedOptions,
                                 global |-> globalOptions]))

C15_Witness ==
    /\ pc = "verified" /\ AdjustedTwiceOver(spec)
    /\ spec.eval.specs[1].eval.adjustedOptions = [strict |-> FALSE]
    /\ spec.eval.adjustedOptions = [strict |-> TRUE, failEarly |-> TRUE]
    /\ globalOptions = [failEarly |-> FALSE]
    /\ value = Obj(<<"c", "d">>, <<Num(1), Num(1)>>)
    /\ result.hasErr
    /\ Reports(result.err) = << <<"type.object.extra_attribute", Str("c")>> >>

\* C16 as stated: after adjust(adjust(spec, o1), o2) the adjustments of the
\* definition are o1 and o2 merged, o2 winning on the keys that both have.
C16_AsStated ==
    (pc = "described" /\ AdjustedTwiceOver(spec)) =>
        described.definition.adjustments =
            Overlaid(spec.eval.specs[1].eval.adjustedOptions, spec.eval.adjustedOptions)

\* C17: adjust on a spec whose definition has adjustments already merges the new
\* options into them: the adjustments have every key of both, and a key that was
\* there already keeps its value.
C17_ExistingAdjustmentsAreKept ==
    (pc = "described" /\ AdjustedTwiceOver(spec)) =>
        LET existing == spec.eval.specs[1].definition.adjustments
            new == spec.eval.adjustedOptions
            adjustments == described.definition.adjustments
        IN  /\ described.definition.hasAdjustments
            /\ existing = spec.eval.specs[1].eval.adjustedOptions
            /\ DOMAIN adjustments = DOMAIN existing \cup DOMAIN new
            /\ \A k \in DOMAIN existing : adjustments[k] = existing[k]
            /\ \A k \in DOMAIN new \ DOMAIN existing : adjustments[k] = new[k]

C17_Witness ==
    /\ pc = "described" /\ AdjustedTwiceOver(spec)
    /\ spec.eval.specs[1].eval.adjustedOptions = [strict |-> FALSE]
    /\ spec.eval.adjustedOptions = [strict |-> TRUE, failEarly |-> TRUE]
    /\ described.definition.adjustments = [strict |-> FALSE, failEarly |-> TRUE]


\* C18: constrain(spec, cs) and adjust(spec, o) give a definition without alias,
\* also when the definition of spec has one, that has every other field of the
\* definition of spec; the constraints of constrain are those of spec followed by
\* the definitions of cs in order; the definition of spec itself is as it was.
ConstrainOperands == Aliased({TypeNumber, positive, optional(TypeNumber)})
ConstraintLists == SeqsUpTo({above(0), below(1)}, MaxConstraints)
AdjustOperands == Aliased({person}) \cup Aliased(AdjustedOnce)
Unaliased(d) == ~d.hasAlias /\ d.alias = ""
C18_NewDefinitionWithoutAlias ==
    (pc = "described") =>
        /\ \A wrapped \in ConstrainOperands, cs \in ConstraintLists :
             (spec.eval.op = "constrain" /\ spec = constrain(wrapped, cs)) =>
                 /\ Unaliased(described.definition)
                 /\ described.definition.hasConstraints
                 /\ described.definition.constraints =
                        wrapped.definition.constraints
                        \o [i \in DOMAIN cs |-> ConstraintDefinition(cs[i])]
                 /\ [described.definition EXCEPT
                        !.hasAlias = wrapped.definition.hasAlias,
                        !.alias = wrapped.definition.alias,
                        !.hasConstraints = wrapped.definition.hasConstraints,
                        !.constraints = wrapped.definition.constraints]
                    = wrapped.definition
                 /\ spec.eval.specs[1].definition = wrapped.definition
        /\ \A wrapped \in AdjustOperands, o \in LocalOptionSets :
             (spec.eval.op = "adjust" /\ spec = adjust(wrapped, o)) =>
                 /\ Unaliased(described.definition)
                 /\ [described.definition EXCEPT
                        !.hasAlias = wrapped.definition.hasAlias,
                        !.alias = wrapped.definition.alias,
                        !.hasAdjustments = wrapped.definition.hasAdjustments,
                        !.adjustments = wrapped.definition.adjustments]
                    = wrapped.definition
                 /\ spec.eval.specs[1].definition = wrapped.definition

C18_Witness ==
    /\ pc = "described"
    /\ spec = constrain(alias("n", positive), <<below(1)>>)
    /\ ~described.definition.hasAlias
    /\ Len(described.definition.constraints) = 2
    /\ described.definition.constraints[2].name = "below"
    /\ spec.eval.specs[1].definition.hasAlias
    /\ Len(spec.eval.specs[1].definition.constraints) = 1


\* C19: the path list of a failure tree has exactly one entry per leaf, a leaf
\* being a failure without nestedErrors, in depth-first left-to-right order; the
\* path of an entry is made of the defined keys of the failures from the root
\* down to its leaf, and the entry carries what the include options ask for of
\* that leaf; a failure that has nestedErrors gets no entry of its own.
RECURSIVE Positions(_)
Positions(f) ==
    {<<>>} \cup UNION {{<<i>> \o q : q \in Positions(f.nestedErrors[i])} :
                         i \in DOMAIN f.nestedErrors}
RECURSIVE At(_, _)
At(f, p) == IF p = <<>> THEN f ELSE At(f.nestedErrors[Head(p)], Tail(p))
RECURSIVE KeysTo(_, _)
KeysTo(f, p) ==
    (IF f.key # Undefined THEN <<f.key>> ELSE <<>>)
    \o (IF p = <<>> THEN <<>> ELSE KeysTo(f.nestedErrors[Head(p)], Tail(p)))
LeafPositions(f) == {p \in Positions(f) : ~At(f, p).hasNested}
Before(p, q) ==
    \E k \in 1..Len(p) :
        /\ k <= Len(q)
        /\ SubSeq(p, 1, k - 1) = SubSeq(q, 1, k - 1)
        /\ p[k] < q[k]
Asked(option, default) ==
    IF option \in DOMAIN errorPathList.include
    THEN errorPathList.include[option]
    ELSE default
RECURSIVE SameFailure(_, _)
SameFailure(e, f) ==
    /\ e.code = f.code /\ e.value = f.value /\ e.message = f.message /\ e.key = f.key
    /\ e.hasNested = f.hasNested
    /\ Len(e.nestedErrors) = Len(f.nestedErrors)
    /\ \A i \in DOMAIN f.nestedErrors : SameFailure(e.nestedErrors[i], f.nestedErrors[i])
C20_AsStated ==
    (pc = "verified" /\ result.hasErr) =>
        \A i \in DOMAIN valueCalls :
            valueCalls[i].threw /\ SameFailure(valueCalls[i].error, result.err)


\* C21: extractAliases puts the stub {alias: name} in the place of every node
\* that has an alias, in the returned definition or, under another node with an
\* alias, in the entry of that node; the entry of a name is the definition of a
\* node of that name with its nested children replaced in the same way; a name
\* that is on two nodes of one definition has one entry, that definition
\* expanded, and a stub in the place of either node.
HasAlias(d) == d.hasAlias /\ d.alias # ""
RECURSIVE Expanded(_)
Expanded(d) ==
    [d EXCEPT !.nested =
        [i \in DOMAIN d.nested |->
            IF HasAlias(d.nested[i]) THEN Stub(d.nested[i].alias)
            ELSE Expanded(d.nested[i])]]
RECURSIVE NodePositions(_)
NodePositions(d) ==
    {<<>>} \cup UNION {{<<i>> \o q : q \in NodePositions(d.nested[i])} : i \in DOMAIN d.nested}
RECURSIVE NodeAt(_, _)
NodeAt(d, p) == IF p = <<>> THEN d ELSE NodeAt(d.nested[Head(p)], Tail(p))
Occurrences(d, name) ==
    {p \in NodePositions(d) : HasAlias(NodeAt(d, p)) /\ NodeAt(d, p).alias = name}
NamesIn(d) == {NodeAt(d, p).alias : p \in {q \in NodePositions(d) : HasAlias(NodeAt(d, q))}}
C21_AliasedNodesBecomeStubs ==
    (pc = "extracted") =>
        LET d == described.definition
        IN  /\ extracted.definition = IF HasAlias(d) THEN Stub(d.alias) ELSE Expanded(d)
            /\ DOMAIN extracted.aliases = NamesIn(d)
            /\ \A name \in NamesIn(d) :
                 /\ \E p \in Occurrences(d, name) :
                      extracted.aliases[name] = Expanded(NodeAt(d, p))
                 /\ (\A p, q \in Occurrences(d, name) : NodeAt(d, p) = NodeAt(d, q))
                      => \A p \in Occurrences(d, name) :
                           extracted.aliases[name] = Expanded(NodeAt(d, p))

C21_Witness ==
    /\ pc = "extracted"
    /\ described.definition.type = "object" /\ ~described.definition.hasAlias
    /\ described.definition.nested[1] = alias("n", TypeNumber).definition
    /\ described.definition.nested[2] = alias("m", TypeArray(alias("n", TypeNumber))).definition
    /\ extracted.definition.nested = <<Stub("n"), Stub("m")>>
    /\ DOMAIN extracted.aliases = {"n", "m"}
    /\ extracted.aliases["m"].nested = <<Stub("n")>>
    /\ extracted.aliases["n"] = alias("n", TypeNumber).definition


\* C22: when a name is on several nodes with different definitions, the entry
\* of the name is the expansion of the node that is done last: a node is done
\* after the nodes under it and after the nodes under the nested keys before
\* its own.  So the outer of two nodes one inside the other has the entry, and
\* of two nodes side by side the later one.
DoneAfter(q, p) ==
    \/ Len(q) < Len(p) /\ SubSeq(p, 1, Len(q)) = q
    \/ Before(p, q)
LastDone(d, name) ==
    CHOOSE p \in Occurrences(d, name) :
        \A q \in Occurrences(d, name) \ {p} : DoneAfter(p, q)
C22_OuterElseLaterOccurrenceIsRecorded ==
    (pc = "extracted") =>
        \A name \in NamesIn(described.definition) :
            extracted.aliases[name] =
                Expanded(NodeAt(described.definition, LastDone(described.definition, name)))

C22_Witness ==
    /\ pc = "extracted"
    /\ described.definition.type = "object" /\ ~described.definition.hasAlias
    /\ described.definition.nested[1] = alias("n", TypeNumber).definition
    /\ described.definition.nested[2] = alias("n", TypeArray(alias("n", TypeString))).definition
    /\ extracted.aliases["n"].type = "array"
    /\ extracted.aliases["n"].nested = <<Stub("n")>>

\* C22 as stated: the entry of a name is the expansion of its first occurrence,
\* the outer one of two nodes one inside the other and the earlier one of two
\* nodes side by side.
FirstMet(d, name) ==
    CHOOSE p \in Occurrences(d, name) :
        \A q \in Occurrences(d, name) \ {p} :
            \/ Len(p) < Len(q) /\ SubSeq(q, 1, Len(p)) = p
            \/ Before(p, q)
C22_AsStated ==
    (pc = "extracted") =>
        \A name \in NamesIn(described.definition) :
            extracted.aliases[name] =
                Expanded(NodeAt(described.definition, FirstMet(described.definition, name)))


\* C23: verify, definitionOf, alias, constrain, optional, adjust and either
\* throw an exception, and return neither a failure nor a spec, when a spec
\* given to them has another version than 1, and constrain also when a
\* constraint has; nothing is evaluated then.
OtherVersion(list) == \E i \in DOMAIN list : list[i].version # 1
C23_OtherVersionsThrow ==
    /\ (pc \in {"verified", "threw"} /\ spec.version # 1) =>
           /\ pc = "threw" /\ result.threw /\ ~result.hasErr
           /\ result.exc = "Unknown spec version '" \o ToString(spec.version) \o "'"
           /\ evalLog = <<>>
    /\ (pc = "described" /\ spec.version # 1) =>
           /\ described.threw
           /\ described.exc = "Unknown spec version '" \o ToString(spec.version) \o "'"
    /\ (pc = "built"
          /\ \/ OtherVersion(built.call.specs)
             \/ built.call.op = "constrain" /\ OtherVersion(built.call.constraints)) =>
           /\ built.outcome.threw /\ ~built.outcome.hasSpec
           /\ built.outcome.exc # ""
           /\ evalLog = <<>> /\ result = NoResult

C23_Witness ==
    /\ pc = "built"
    /\ built.call.op = "constrain"
    /\ spec.version = 1
    /\ built.call.specs = <<spec>>
    /\ OtherVersion(built.call.constraints)
    /\ built.outcome.threw
    /\ built.outcome.exc = "Unknown constraint version '1,0'"

\* C24: calls of verify on one spec, with their iterations interleaved, return
\* each what the call returns alone; the spec and the arguments of every call
\* stay as they were given.
C24_CallsDoNotInterfere ==
    (pc = "calls") =>
        \A c \in Callers :
            /\ spec = calls[c].args.spec
            /\ calls[c].value = calls[c].args.value
            /\ calls[c].globalOptions = calls[c].args.globalOptions
            /\ (calls[c].pc = "done") =>
                   calls[c].result =
                       verify(calls[c].args.spec, calls[c].args.value,
                              calls[c].args.globalOptions)

C24_Witness ==
    /\ pc = "calls"
    /\ \A c \in Callers : calls[c].pc = "done" /\ calls[c].overlapped
    /\ calls[1].value = calls[2].value
    /\ calls[1].globalOptions = NoOptions
    /\ calls[2].globalOptions = [failEarly |-> TRUE]
    /\ calls[1].result.hasErr /\ Len(calls[1].result.err.nestedErrors) = 2
    /\ calls[2].result.hasErr /\ Len(calls[2].result.err.nestedErrors) = 1


\* C25 as stated: the path list generated from the error that value() has
\* thrown is the path list generated from result.err.
C25_AsStated ==
    (pc = "listed") =>
        \A i \in DOMAIN valueCalls :
            (valueCalls[i].threw /\ errorPathList.err = valueCalls[i].error) =>
                errorPathList.list =
                    generateErrorPathList(result.err, errorPathList.include)


\* C26 as stated: a schema attribute whose definition has the flag "optional"
\* may be absent: an object without it is not reported to miss it.
FlaggedOptional(s) == s.definition.hasFlags /\ "optional" \in Range(s.definition.flags)
C26_AsStated ==
    (pc = "verified" /\ spec.eval.op = "Type.object" /\ value.t = "object") =>
        \A i \in DOMAIN spec.eval.attrs :
            (FlaggedOptional(spec.eval.specs[i]) /\ ~HasKey(value, spec.eval.attrs[i])) =>
                ~(/\ result.hasErr
                  /\ \E j \in DOMAIN result.err.nestedErrors :
                       /\ result.err.nestedErrors[j].key = Str(spec.eval.attrs[i])
                       /\ result.err.nestedErrors[j].code =
                              ObjectCode(spec.eval, "missing_attribute"))


\* C30: unique(equalsFunc) fails with constraint.array.unique exactly when
\* equalsFunc holds of the elements at some indices i < j; it calls equalsFunc on
\* the pairs i < j in the order of i and then j, up to the first pair it holds
\* of, which the failure names; so it makes at most N * (N - 1) / 2 calls for N
\* elements, and that many when there is no such pair.
UniqueIsChecked ==
    /\ pc = "verified" /\ spec.eval.op = "constrain" /\ value.t = "array"
    /\ Len(spec.eval.constraints) = 1 /\ spec.eval.constraints[1].name = "unique"
EqualsFunc == spec.eval.constraints[1].options[1]
PairsOf(n) == {p \in (0..(n - 1)) \X (0..(n - 1)) : p[1] < p[2]}
PairBefore(p, q) == p[1] < q[1] \/ (p[1] = q[1] /\ p[2] < q[2])
Rank(p, n) == 1 + Cardinality({q \in PairsOf(n) : PairBefore(q, p)})
Duplicates ==
    {p \in PairsOf(Len(value.items)) :
        Equals(EqualsFunc, value.items[p[1] + 1], value.items[p[2] + 1])}
FirstDuplicate == CHOOSE p \in Duplicates : \A q \in Duplicates \ {p} : PairBefore(p, q)
EqualsCalls == SelectSeq(evalLog, LAMBDA called : called.kind = "equalsFunc")
AdjustOverConstrain == IsAdjusted(spec) /\ spec.eval.specs[1].eval.op = "constrain"
ConstrainOverAdjust ==
    LET constrained == spec.eval.specs[1]
    IN  constrain(adjust(constrained.eval.specs[1], spec.eval.adjustedOptions),
                  constrained.eval.constraints)
C27_ConstrainAndAdjustCommute ==
    (pc \in {"verified", "threw"} /\ AdjustOverConstrain) =>
        /\ result = verify(ConstrainOverAdjust, value, globalOptions)
        /\ evalLog = verifyLog(ConstrainOverAdjust, value, globalOptions)

C27_Witness ==
    /\ pc = "verified" /\ AdjustOverConstrain
    /\ spec.eval.adjustedOptions = [skipInvalid |-> TRUE]
    /\ globalOptions = NoOptions
    /\ value = Arr(<<Num(1), Str("x"), Num(1)>>)
    /\ result.hasErr
    /\ result.err.code = "constraint.array.unique"
    /\ result = verify(ConstrainOverAdjust, value, globalOptions)


\* C28: after extractAliases(d) no node with an alias is left under the
\* returned definition or under an entry of aliases, only stubs; the name of
\* every stub is a key of aliases; and d with all its nested definitions is as
\* it was.
IsStub(d) == d = Stub(d.alias)
OnlyStubsUnder(d) ==
    \A p \in NodePositions(d) \ {<<>>} : HasAlias(NodeAt(d, p)) => IsStub(NodeAt(d, p))
StubNames(d) == {NodeAt(d, p).alias : p \in {q \in NodePositions(d) : IsStub(NodeAt(d, q))}}
C28_OnlyStubsAreLeftAndEveryStubHasAnEntry ==
    (pc = "extracted") =>
        /\ OnlyStubsUnder(extracted.definition)
        /\ HasAlias(extracted.definition) => IsStub(extracted.definition)
        /\ \A name \in DOMAIN extracted.aliases : OnlyStubsUnder(extracted.aliases[name])
        /\ StubNames(extracted.definition) \subseteq DOMAIN extracted.aliases
        /\ \A name \in DOMAIN extracted.aliases :
               StubNames(extracted.aliases[name]) \subseteq DOMAIN extracted.aliases
        /\ extracted.def = described.definition

C28_Witness ==
    /\ pc = "extracted"
    /\ described.definition =
           alias("n", TypeObject(<<"a", "b">>,
                                 <<alias("m", TypeArray(alias("n", TypeString))),
                                   TypeNumber>>)).definition
    /\ extracted.definition = Stub("n")
    /\ DOMAIN extracted.aliases = {"n", "m"}
    /\ extracted.aliases["m"].nested = <<Stub("n")>>
    /\ extracted.aliases["n"].nested[1] = Stub("m")
    /\ extracted.def = described.definition

\* C29 as stated: isoDateTimeUtc never throws; for a string that is no valid
\* ISO UTC date-time it returns an object whose err is a failure of code
\* transform.isoDateTime; for a valid one it returns what
\* instantiateWithSingleArg(Date) returns, an object with err null and the date
\* as value.
IsIsoUtcDateTime(str) == str.form = "full" /\ LegalElements(str) /\ str.hours <= 23
C29_AsStated ==
    (pc = "transformed") =>
        /\ ~result.threw
        /\ IsIsoUtcDateTime(value) => result = instantiateWithSingleArg(value)
        /\ ~IsIsoUtcDateTime(value) =>
               /\ result.keys = {"err"} /\ ~result.errIsNull
               /\ result.err.code = "transform.isoDateTime"

====
